---- MODULE Spec2Model ----
(***************************************************************************)
(* Mixed-Memory: the chunker, the extraction aggregator, its merge and the *)
(* store writer (neo4j_book2graph.py, neo4j_builder.py), the assembler of  *)
(* the R-graph and the L-dictionary (build_graphs.py,                      *)
(* graph_generation.py), and the question answering over the store         *)
(* (neo4j_gpt_qa.py).                                                      *)
(*                                                                         *)
(* Each program is a state machine of its own over the shared variables:   *)
(*   SpecSplit    split_text                                               *)
(*   SpecMerge    merge_graph_data                                         *)
(*   SpecExtract  extract_graph_from_chunk                                 *)
(*   SpecRGraph   build_r_graph (the module function and the method)       *)
(*   SpecStore    write_graph_to_neo4j, insert_r_graph, build_r_graph      *)
(*   SpecAssemble build_r_graph then build_l_dict                          *)
(*   SpecResolve  find_best_matching_node                                  *)
(*   SpecQA       handle_question, one question after another              *)
(*   SpecBuild    build_node_embedding_index                               *)
(*   SpecIngest   the ingest job (__main__ of neo4j_book2graph.py)         *)
(*   SpecPipeline run_pipeline (main.py)                                   *)
(*   SpecRebuild  build_all_graphs, again and again on one builder         *)
(*   SpecRecord   save_to_json, step by step, with the process stopped     *)
(* A program that is not running keeps its variables at their idle values. *)
(***************************************************************************)
EXTENDS Integers, Sequences, FiniteSets, TLC

VARIABLES
    \* split_text
    text, max_tokens, paragraphs, chunks, current_chunk, para_i, split_pc,
    \* merge_graph_data
    graph_list, final_graph, merge_pc,
    \* extract_graph_from_chunk
    num_repeats, pass_i, responses, all_graphs, calls, merged_graph, extract_pc,
    \* build_r_graph: builder.graph_data, builder.R_graph_nx, the value returned
    graph_data, R_graph_nx, r_returned, rgraph_pc,
    \* write_graph_to_neo4j and insert_r_graph: the graph store
    graph_json, store, write_i, written, write_pc, insert_pc,
    \* build_l_dict: builder.L_dict, the value returned
    L_dict, l_returned, ldict_pc,
    \* find_best_matching_node
    index, threshold, query_emb, best_name, best_score, scan_i, embed_calls, matched, resolve_pc,
    \* handle_question: the question in hand, the provenance log file; the
    \* log file before the first question, the records of the questions
    \* answered, the calls made for the question in hand, the step that
    \* raised, the content of the translation, the steps completed for the
    \* question in hand with what they were given and gave
    question, asked, qa_pc, matched_node, cypher_query, cypher_result, answer, log_file, log_start, answered, qa_calls, qa_error,
    translation, qa_trace,
    \* build_node_embedding_index: the names extracted, the index built and the file written
    names, new_index, index_file, build_calls, build_pc,
    \* __main__ of neo4j_book2graph.py: the loop index, its all_graphs, the file
    \* saved; what the extraction of each chunk did, the chunks whose error
    \* was printed
    idx, main_all_graphs, out_file, chunk_log, logged, ingest_pc,
    \* run_pipeline: the collaborator answer, the JSON file saved, the steps begun
    pipeline_content, graph_file, steps, pipeline_pc,
    \* the calls of build_all_graphs made on one builder
    builds,
    \* save_to_json step by step: the record, the list loaded, the calls begun
    save_data, save_all_data, saves, save_pc

splitVars == <<text, max_tokens, paragraphs, chunks, current_chunk, para_i, split_pc>>
mergeVars == <<graph_list, final_graph, merge_pc>>
extractVars == <<num_repeats, pass_i, responses, all_graphs, calls, merged_graph, extract_pc>>
rgraphVars == <<graph_data, R_graph_nx, r_returned, rgraph_pc>>
storeVars == <<graph_json, store, write_i, written, write_pc, insert_pc>>
ldictVars == <<L_dict, l_returned, ldict_pc>>
resolveVars == <<index, threshold, query_emb, best_name, best_score, scan_i, embed_calls, matched, resolve_pc>>
qaVars == <<question, asked, qa_pc, matched_node, translation, cypher_query,
           cypher_result, answer, log_file, log_start, answered, qa_calls, qa_error,
           qa_trace>>
buildVars == <<names, new_index, index_file, build_calls, build_pc>>
ingestVars == <<idx, main_all_graphs, out_file, chunk_log, logged, ingest_pc>>
pipelineVars == <<pipeline_content, graph_file, steps, pipeline_pc>>
rebuildVars == <<builds>>
recordVars == <<save_data, save_all_data, saves, save_pc>>
vars == <<splitVars, mergeVars, extractVars, rgraphVars, storeVars, ldictVars, resolveVars, qaVars, buildVars, ingestVars, pipelineVars, rebuildVars, recordVars>>

\* What each program leaves alone.
splitFrame == <<mergeVars, extractVars, rgraphVars, storeVars, ldictVars, resolveVars, qaVars, buildVars, ingestVars, pipelineVars, rebuildVars, recordVars>>
mergeFrame == <<splitVars, extractVars, rgraphVars, storeVars, ldictVars, resolveVars, qaVars, buildVars, ingestVars, pipelineVars, rebuildVars, recordVars>>
extractFrame == <<splitVars, mergeVars, rgraphVars, storeVars, ldictVars, resolveVars, qaVars, buildVars, ingestVars, pipelineVars, rebuildVars, recordVars>>
rgraphFrame == <<splitVars, mergeVars, extractVars, storeVars, ldictVars, resolveVars, qaVars, buildVars, ingestVars, pipelineVars, rebuildVars, recordVars>>
storeFrame == <<splitVars, mergeVars, extractVars, rgraphVars, ldictVars, resolveVars, qaVars, buildVars, ingestVars, pipelineVars, rebuildVars, recordVars>>
ldictFrame == <<splitVars, mergeVars, extractVars, rgraphVars, storeVars, resolveVars, qaVars, buildVars, ingestVars, pipelineVars, rebuildVars, recordVars>>
resolveFrame == <<splitVars, mergeVars, extractVars, rgraphVars, storeVars, ldictVars, qaVars, buildVars, ingestVars, pipelineVars, rebuildVars, recordVars>>
qaFrame == <<splitVars, mergeVars, extractVars, rgraphVars, storeVars, ldictVars, resolveVars, buildVars, ingestVars, pipelineVars, rebuildVars, recordVars>>
buildFrame == <<splitVars, mergeVars, extractVars, rgraphVars, storeVars, ldictVars, resolveVars, qaVars, ingestVars, pipelineVars, rebuildVars, recordVars>>
ingestVarsButPc == <<idx, main_all_graphs, out_file, chunk_log, logged>>
ingestFrame == <<splitVars, mergeVars, extractVars, rgraphVars, storeVars, ldictVars, resolveVars, qaVars, buildVars, pipelineVars, rebuildVars, recordVars>>
pipelineFrame == <<splitVars, mergeVars, extractVars, rgraphVars, storeVars, ldictVars, resolveVars, qaVars, buildVars, ingestVars, rebuildVars, recordVars>>
rebuildFrame == <<splitVars, mergeVars, extractVars, rgraphVars, storeVars, ldictVars, resolveVars, qaVars, buildVars, ingestVars, pipelineVars, recordVars>>
recordFrameButQA == <<splitVars, mergeVars, extractVars, rgraphVars, storeVars, ldictVars,
                      resolveVars, buildVars, ingestVars, pipelineVars, rebuildVars>>
recordFrame == <<splitVars, mergeVars, extractVars, rgraphVars, storeVars, ldictVars, resolveVars, qaVars, buildVars, ingestVars, pipelineVars, rebuildVars>>

(***************************************************************************)
(* Bounds of the model.                                                    *)
(***************************************************************************)
MaxTextLen == 7
MaxChars == 5
MaxGraphs == 2
MaxRecords == 3
MaxRepeats == 2
MaxEntries == 2
MaxFacts == 2

(***************************************************************************)
(* Sequences.                                                              *)
(***************************************************************************)
SeqsUpTo(S, n) == UNION {[1..k -> S] : k \in 0..n}

Range(s) == {s[i] : i \in DOMAIN s}

RECURSIVE Flatten(_)
Flatten(ss) == IF ss = <<>> THEN <<>> ELSE Head(ss) \o Flatten(Tail(ss))

(***************************************************************************)
(* Strings are sequences of characters; NL is the newline.                 *)
(***************************************************************************)
NL == "\n"
Alphabet == {"a", "b", NL}
Whitespace == {" ", NL, "\t", "\r"}
ParaSep == <<NL, NL>>

\* str.strip(): leading and trailing whitespace removed.
Strip(s) ==
    LET keep == {i \in DOMAIN s : s[i] \notin Whitespace} IN
    IF keep = {} THEN <<>>
    ELSE LET lo == CHOOSE i \in keep : \A j \in keep : i <= j
             hi == CHOOSE i \in keep : \A j \in keep : j <= i
         IN SubSeq(s, lo, hi)

\* The index of the first "\n\n" in s, 0 when there is none (str.find).
FindSep(s) ==
    LET hits == {i \in 1..(Len(s) - 1) : s[i] = NL /\ s[i + 1] = NL} IN
    IF hits = {} THEN 0 ELSE CHOOSE i \in hits : \A j \in hits : i <= j

\* text.split("\n\n"): left-to-right, non-overlapping; "" splits to [""].
RECURSIVE SplitParagraphs(_)
SplitParagraphs(s) ==
    LET at == FindSep(s) IN
    IF at = 0 THEN <<s>>
    ELSE <<SubSeq(s, 1, at - 1)>> \o SplitParagraphs(SubSeq(s, at + 2, Len(s)))

(***************************************************************************)
(* split_text(text, max_tokens)                                            *)
(***************************************************************************)
\* line 51: the paragraph joins the running buffer.
FitsBuffer_Inclusive(cur, para, max) == Len(cur) + Len(para) <= max

FitsBuffer(cur, para, max) == Len(cur) + Len(para) < max

\* lines 52, 56: a paragraph is stored with the separator after it.
WithSep(para) == para \o ParaSep

\* lines 54-55, 58-59: the buffer is emitted trimmed, and only when not blank.
EmitChunk_Untrimmed(cs, cur) == IF Strip(cur) # <<>> THEN Append(cs, cur) ELSE cs

EmitChunk(cs, cur) == IF Strip(cur) # <<>> THEN Append(cs, Strip(cur)) ELSE cs

\* line 56: the buffer restarts with the paragraph that did not fit.
RestartBuffer_Dropped(para) == <<>>

RestartBuffer(para) == WithSep(para)

\* lines 46-48
SplitStart ==
    /\ split_pc = "call"
    /\ paragraphs' = SplitParagraphs(text)
    /\ chunks' = <<>>
    /\ current_chunk' = <<>>
    /\ para_i' = 1
    /\ split_pc' = "loop"
    /\ UNCHANGED <<text, max_tokens>>
    /\ UNCHANGED splitFrame

\* lines 50-56: one iteration of the loop over the paragraphs.
SplitPara ==
    /\ split_pc = "loop"
    /\ para_i <= Len(paragraphs)
    /\ LET para == paragraphs[para_i] IN
       \/ /\ FitsBuffer(current_chunk, para, max_tokens)
          /\ current_chunk' = current_chunk \o WithSep(para)
          /\ chunks' = chunks
       \/ /\ ~FitsBuffer(current_chunk, para, max_tokens)
          /\ chunks' = EmitChunk(chunks, current_chunk)
          /\ current_chunk' = RestartBuffer(para)
    /\ para_i' = para_i + 1
    /\ UNCHANGED <<text, max_tokens, paragraphs, split_pc>>
    /\ UNCHANGED splitFrame

\* lines 58-61
SplitReturn ==
    /\ split_pc = "loop"
    /\ para_i > Len(paragraphs)
    /\ chunks' = EmitChunk(chunks, current_chunk)
    /\ split_pc' = "done"
    /\ UNCHANGED <<text, max_tokens, paragraphs, current_chunk, para_i>>
    /\ UNCHANGED splitFrame

SplitNext == SplitStart \/ SplitPara \/ SplitReturn

(***************************************************************************)
(* Python values: a dict is the sequence of its <<key, value>> items in    *)
(* insertion order; a JSON object is a function on its keys.               *)
(***************************************************************************)
DictHas(d, k) == \E i \in DOMAIN d : d[i][1] = k

\* d[k] = v: an existing key keeps its place, a new key goes last.
DictSet_FirstWins(d, k, v) == IF DictHas(d, k) THEN d ELSE Append(d, <<k, v>>)

DictSet_Union(d, k, v) ==
    IF DictHas(d, k)
    THEN [i \in DOMAIN d |->
            IF d[i][1] = k
            THEN LET old == d[i][2] IN
                 <<k, [v EXCEPT !.properties =
                         [p \in DOMAIN old.properties \cup DOMAIN v.properties |->
                            IF p \in DOMAIN v.properties
                            THEN v.properties[p] ELSE old.properties[p]]]>>
            ELSE d[i]]
    ELSE Append(d, <<k, v>>)

DictSet(d, k, v) ==
    IF DictHas(d, k)
    THEN [i \in DOMAIN d |-> IF d[i][1] = k THEN <<k, v>> ELSE d[i]]
    ELSE Append(d, <<k, v>>)

\* list(d.values())
DictValues(d) == [i \in DOMAIN d |-> d[i][2]]

\* obj.get(key, default)
Get(obj, key, default) == IF key \in DOMAIN obj THEN obj[key] ELSE default

(***************************************************************************)
(* Candidate graphs: {nodes: [{id, labels, properties}],                   *)
(* relationships: [{start_node_id, end_node_id, type, properties}]}.       *)
(* Two records share the id n1 and differ in every field; the property     *)
(* "aliases" is list-valued, the others are scalars.                       *)
(***************************************************************************)
NodeRecords ==
    { [id |-> "n1", labels |-> <<"Person">>,
       properties |-> [name |-> "Al", role |-> "pilot", aliases |-> <<"A">>]],
      [id |-> "n1", labels |-> <<"Hero">>,
       properties |-> [name |-> "Alice", aliases |-> <<"Ally">>]],
      [id |-> "n2", labels |-> <<"Place">>,
       properties |-> [name |-> "Paris"]] }

RelRecords ==
    { [start_node_id |-> "n1", end_node_id |-> "n2", type |-> "VISITED",
       properties |-> [time |-> "t1"]],
      [start_node_id |-> "n1", end_node_id |-> "n2", type |-> "VISITED",
       properties |-> [time |-> "t2"]] }

ListKeys == {"aliases"}

\* The graphs holding exactly k records; an empty list may be a missing key.
GraphsOfSize(k) ==
    UNION { LET full == { [nodes |-> ns, relationships |-> rs] :
                            ns \in [1..nn -> NodeRecords],
                            rs \in [1..(k - nn) -> RelRecords] }
            IN full
               \cup { [x \in {"relationships"} |-> g.relationships] :
                        g \in {f \in full : f.nodes = <<>>} }
               \cup { [x \in {"nodes"} |-> g.nodes] :
                        g \in {f \in full : f.relationships = <<>>} }
               \cup { [x \in {} |-> <<>>] :
                        g \in {f \in full : f.nodes = <<>> /\ f.relationships = <<>>} }
          : nn \in 0..k }

\* The number of node and relationship records a list of graphs holds.
RECURSIVE RecordCount(_)
RecordCount(gl) ==
    IF gl = <<>> THEN 0
    ELSE Len(Get(Head(gl), "nodes", <<>>))
         + Len(Get(Head(gl), "relationships", <<>>))
         + RecordCount(Tail(gl))

EmptyGraph == [nodes |-> <<>>, relationships |-> <<>>]

(***************************************************************************)
(* merge_graph_data(graph_list)                                            *)
(***************************************************************************)
\* lines 164-165: for node in graph.get("nodes", []): merged_nodes[node["id"]] = node
RECURSIVE MergeNodes(_, _)
MergeNodes(merged_nodes, nodes) ==
    IF nodes = <<>> THEN merged_nodes
    ELSE MergeNodes(DictSet(merged_nodes, Head(nodes).id, Head(nodes)), Tail(nodes))

\* line 166: merged_relationships.extend(graph.get("relationships", []))
ExtendRelationships_Assign(merged_relationships, graph) ==
    Get(graph, "relationships", <<>>)

ExtendRelationships_Dedup(merged_relationships, graph) ==
    merged_relationships
        \o SelectSeq(Get(graph, "relationships", <<>>),
                     LAMBDA r : r \notin Range(merged_relationships))

ExtendRelationships(merged_relationships, graph) ==
    merged_relationships \o Get(graph, "relationships", <<>>)

\* lines 163-166: the loop over graph_list.
RECURSIVE MergeLoop(_, _, _)
MergeLoop(merged_nodes, merged_relationships, gl) ==
    IF gl = <<>>
    THEN [nodes |-> merged_nodes, relationships |-> merged_relationships]
    ELSE MergeLoop(MergeNodes(merged_nodes, Get(Head(gl), "nodes", <<>>)),
                   ExtendRelationships(merged_relationships, Head(gl)),
                   Tail(gl))

\* lines 156-173
\* A JSON object has .get; a list, [array |-> its items], has not.
IsObject(value) == "array" \notin DOMAIN value

\* lines 163-165: graph.get on a document that is not an object and
\* node["id"] on a record without an id raise.
MergeRaises(gl) ==
    \E i \in DOMAIN gl :
       IF ~IsObject(gl[i]) THEN TRUE
       ELSE \E j \in DOMAIN Get(gl[i], "nodes", <<>>) :
               "id" \notin DOMAIN Get(gl[i], "nodes", <<>>)[j]

merge_graph_data(gl) ==
    LET merged == MergeLoop(<<>>, <<>>, gl) IN
    [nodes |-> DictValues(merged.nodes), relationships |-> merged.relationships]

\* lines 138, 227: the caller appends a candidate graph to the list it merges.
CollectGraph ==
    /\ merge_pc = "collect"
    /\ Len(graph_list) < MaxGraphs
    /\ \E k \in 0..(MaxRecords - RecordCount(graph_list)) :
          \E g \in GraphsOfSize(k) : graph_list' = Append(graph_list, g)
    /\ UNCHANGED <<final_graph, merge_pc>>
    /\ UNCHANGED mergeFrame

\* lines 152, 231: merge_graph_data(graph_list)
MergeCall ==
    /\ merge_pc = "collect"
    /\ final_graph' = merge_graph_data(graph_list)
    /\ merge_pc' = "done"
    /\ UNCHANGED graph_list
    /\ UNCHANGED mergeFrame

MergeNext == CollectGraph \/ MergeCall

(***************************************************************************)
(* extract_graph_from_chunk(chunk_text, chunk_index, num_repeats)          *)
(*                                                                         *)
(* The collaborator's output is a text, here a sequence of tokens: the two *)
(* fence markers, a newline, prose, or a JSON document [json |-> value].   *)
(***************************************************************************)
\* The markers of a fenced block: three backquotes, with and without the tag.
FenceJson == [tok |-> "fence_json"]
Fence == [tok |-> "fence"]
Newline == [tok |-> "newline"]
Prose == [tok |-> "prose"]
Document(value) == [tok |-> "document", json |-> value]

IsDocument(t) == t.tok = "document"

\* The model's documents: the empty graph and the graphs of one record.
PassGraphs == {g \in GraphsOfSize(0) \cup GraphsOfSize(1) :
                  DOMAIN g = {"nodes", "relationships"}}

\* Documents that are JSON and not a graph: a list instead of an object,
\* and a graph whose node record has no id.
JsonList == [array |-> <<>>]
NodeWithoutId ==
    [nodes |-> <<[labels |-> <<"Person">>, properties |-> [name |-> "Al"]]>>,
     relationships |-> <<>>]
Mismatched == {JsonList, NodeWithoutId}

\* What the collaborator may answer.
Responses ==
    UNION { { <<Document(g)>>,
              <<FenceJson, Newline, Document(g), Newline, Fence>>,
              <<Fence, Newline, Document(g), Newline, Fence>>,
              <<Prose, Newline, Document(g)>> } : g \in PassGraphs }
    \cup { <<Document(g)>> : g \in Mismatched }
    \cup { <<Prose>>, <<>> }

\* str.strip() on a token text.
StripTokens(t) ==
    LET keep == {i \in DOMAIN t : t[i] # Newline} IN
    IF keep = {} THEN <<>>
    ELSE SubSeq(t, CHOOSE i \in keep : \A j \in keep : i <= j,
                   CHOOSE i \in keep : \A j \in keep : j <= i)

\* lines 131-132
StripOpeningFence(t) ==
    IF t # <<>> /\ Head(t) = FenceJson THEN StripTokens(Tail(t)) ELSE t

\* lines 133-134
StripClosingFence(t) ==
    IF t # <<>> /\ t[Len(t)] = Fence THEN StripTokens(SubSeq(t, 1, Len(t) - 1)) ELSE t

\* lines 129-134: result_text
ResultText_FenceKept(content) == StripTokens(content)

ResultText(content) == StripClosingFence(StripOpeningFence(StripTokens(content)))

\* line 137: json.loads succeeds on one document, whitespace around it allowed.
Parses(result_text) ==
    /\ Len(StripTokens(result_text)) = 1
    /\ IsDocument(StripTokens(result_text)[1])

JsonLoads(result_text) == StripTokens(result_text)[1].json

\* lines 71, 142: `continue` goes on to the next pass.
AfterPass_Break(i, n, parsed) == IF parsed THEN i + 1 ELSE n

AfterPass(i, n, parsed) == i + 1

\* lines 71-142: one pass; the collaborator answers.
ExtractPass ==
    /\ extract_pc = "loop"
    /\ pass_i < num_repeats
    /\ \E content \in Responses :
          LET result_text == ResultText(content) IN
          /\ responses' = Append(responses, content)
          /\ calls' = calls + 1
          /\ \/ /\ Parses(result_text)
                /\ all_graphs' = Append(all_graphs, JsonLoads(result_text))
                /\ pass_i' = AfterPass(pass_i, num_repeats, TRUE)
             \/ /\ ~Parses(result_text)
                /\ all_graphs' = all_graphs
                /\ pass_i' = AfterPass(pass_i, num_repeats, FALSE)
    /\ UNCHANGED <<num_repeats, merged_graph, extract_pc>>
    /\ UNCHANGED extractFrame

\* line 120: the collaborator call raises; nothing in the function catches it.
ExtractCallRaises ==
    /\ extract_pc = "loop"
    /\ pass_i < num_repeats
    /\ calls' = calls + 1
    /\ extract_pc' = "raised"
    /\ UNCHANGED <<num_repeats, pass_i, responses, all_graphs, merged_graph>>
    /\ UNCHANGED extractFrame

\* lines 144-153; an exception of merge_graph_data leaves the function.
ExtractReturn ==
    /\ extract_pc = "loop"
    /\ pass_i >= num_repeats
    /\ IF all_graphs = <<>>
       THEN /\ merged_graph' = [nodes |-> <<>>, relationships |-> <<>>]
            /\ extract_pc' = "done"
       ELSE IF MergeRaises(all_graphs)
       THEN /\ merged_graph' = merged_graph
            /\ extract_pc' = "raised"
       ELSE /\ merged_graph' = merge_graph_data(all_graphs)
            /\ extract_pc' = "done"
    /\ UNCHANGED <<num_repeats, pass_i, responses, all_graphs, calls>>
    /\ UNCHANGED extractFrame

ExtractNext == ExtractPass \/ ExtractCallRaises \/ ExtractReturn

(***************************************************************************)
(* networkx.MultiDiGraph: the nodes with their attributes in insertion     *)
(* order, and the edges, each with its endpoints, its key among the edges  *)
(* of the same ordered pair, and its attributes.                           *)
(***************************************************************************)
None == [none |-> TRUE]
NoAttrs == [x \in {} |-> ""]
MultiDiGraph == [nodes |-> <<>>, edges |-> <<>>]

HasNode(G, n) == DictHas(G.nodes, n)

\* dict.update: the attributes given replace the same-named ones.
Updated(old, new) ==
    [k \in DOMAIN old \cup DOMAIN new |-> IF k \in DOMAIN new THEN new[k] ELSE old[k]]

\* G.add_node(n, **attrs)
AddNode(G, n, attrs) ==
    IF HasNode(G, n)
    THEN [G EXCEPT !.nodes =
            [i \in DOMAIN G.nodes |->
               IF G.nodes[i][1] = n
               THEN <<n, Updated(G.nodes[i][2], attrs)>> ELSE G.nodes[i]]]
    ELSE [G EXCEPT !.nodes = Append(G.nodes, <<n, attrs>>)]

\* G.new_edge_key(u, v): the number of edges u -> v, raised until unused.
NewEdgeKey(G, u, v) ==
    LET used == {G.edges[i].key : i \in {j \in DOMAIN G.edges :
                                           G.edges[j].u = u /\ G.edges[j].v = v}}
        free == {k \in Cardinality(used)..(2 * Cardinality(used)) : k \notin used}
    IN CHOOSE k \in free : \A m \in free : k <= m

\* G.add_edge(u, v, **attrs): endpoints not yet in the graph are added bare.
AddEdge_Simple(G, u, v, attrs) ==
    LET G1 == IF HasNode(G, u) THEN G ELSE AddNode(G, u, NoAttrs)
        G2 == IF HasNode(G1, v) THEN G1 ELSE AddNode(G1, v, NoAttrs)
        edge == [u |-> u, v |-> v, key |-> 0, attrs |-> attrs]
    IN IF \E i \in DOMAIN G2.edges : G2.edges[i].u = u /\ G2.edges[i].v = v
       THEN [G2 EXCEPT !.edges =
               [i \in DOMAIN G2.edges |->
                  IF G2.edges[i].u = u /\ G2.edges[i].v = v
                  THEN edge ELSE G2.edges[i]]]
       ELSE [G2 EXCEPT !.edges = Append(G2.edges, edge)]

AddEdge(G, u, v, attrs) ==
    LET G1 == IF HasNode(G, u) THEN G ELSE AddNode(G, u, NoAttrs)
        G2 == IF HasNode(G1, v) THEN G1 ELSE AddNode(G1, v, NoAttrs)
    IN [G2 EXCEPT !.edges =
          Append(G2.edges,
                 [u |-> u, v |-> v, key |-> NewEdgeKey(G2, u, v), attrs |-> attrs])]

(***************************************************************************)
(* The R/L extraction output: {"R": [{E1, E2, R: [fact]}], "L": [...]}.    *)
(* A fact holds any of time, relationship and event.                       *)
(***************************************************************************)
Entities == {"Alice", "Bob"}

Facts == { [time |-> "2024-01", relationship |-> "met"],
           [event |-> "party"],
           [time |-> "2024-02", relationship |-> "met", event |-> "party"] }

\* The entries: any endpoints, a list of facts or no "R" key at all.
Entries ==
    { [E1 |-> a, E2 |-> b, R |-> fs] :
        a \in Entities, b \in Entities, fs \in SeqsUpTo(Facts, MaxFacts) }
    \cup { [E1 |-> a, E2 |-> b] : a \in Entities, b \in Entities }

RECURSIVE FactCount(_)
FactCount(es) ==
    IF es = <<>> THEN 0 ELSE Len(Get(Head(es), "R", <<>>)) + FactCount(Tail(es))

\* builder.graph_data: None, or a document with or without the "R" key; the R
\* list holds at most MaxEntries entries and MaxFacts facts.
GraphData ==
    { None, [x \in {} |-> <<>>], [L |-> <<>>] }
    \cup { [R |-> es] : es \in {s \in SeqsUpTo(Entries, MaxEntries) :
                                    FactCount(s) <= MaxFacts} }

\* `not builder.graph_data`: None and the empty dict are falsy.
Falsy(data) == data = None \/ DOMAIN data = {}

(***************************************************************************)
(* build_r_graph                                                           *)
(***************************************************************************)
\* build_graphs.py lines 25-27: a missing field is the empty string.
EdgeAttrs(r) ==
    [time |-> Get(r, "time", ""),
     relationship |-> Get(r, "relationship", ""),
     event |-> Get(r, "event", "")]

\* build_graphs.py lines 20-28: the loop over the facts of one entry.
RECURSIVE AddFacts(_, _, _, _)
AddFacts(G, E1, E2, facts) ==
    IF facts = <<>> THEN G
    ELSE AddFacts(AddEdge(AddNode(AddNode(G, E1, [type |-> "entity"]),
                                  E2, [type |-> "entity"]),
                          E1, E2, EdgeAttrs(Head(facts))),
                  E1, E2, Tail(facts))

\* build_graphs.py lines 17-28: the loop over the entries.
RECURSIVE AddEntries(_, _)
AddEntries(G, entries) ==
    IF entries = <<>> THEN G
    ELSE AddEntries(AddFacts(G, Head(entries).E1, Head(entries).E2,
                             Get(Head(entries), "R", <<>>)),
                    Tail(entries))

\* build_graphs.py lines 13-15 and 43-45: the early return does not assign
\* the builder's view.
AfterEarlyReturn_Assigned(view, built) == built

AfterEarlyReturn(view, built) == view

\* build_graphs.py lines 4-32: build_r_graph(builder)
BuildRGraph ==
    /\ rgraph_pc = "call"
    /\ \/ /\ Falsy(graph_data) \/ "R" \notin DOMAIN graph_data
          /\ r_returned' = MultiDiGraph
          /\ R_graph_nx' = AfterEarlyReturn(R_graph_nx, r_returned')
       \/ /\ ~Falsy(graph_data) /\ "R" \in DOMAIN graph_data
          /\ r_returned' = AddEntries(MultiDiGraph, graph_data["R"])
          /\ R_graph_nx' = r_returned'
    /\ rgraph_pc' = "done"
    /\ UNCHANGED graph_data
    /\ UNCHANGED rgraphFrame

\* graph_generation.py lines 114-129: MemoryGraphBuilder.build_r_graph(self);
\* self.graph_data["R"] raises when there is no such key.
MethodBuildRGraph ==
    /\ rgraph_pc = "call"
    /\ \/ /\ graph_data = None \/ "R" \notin DOMAIN graph_data
          /\ rgraph_pc' = "raised"
          /\ UNCHANGED <<R_graph_nx, r_returned>>
       \/ /\ graph_data # None /\ "R" \in DOMAIN graph_data
          /\ r_returned' = AddEntries(MultiDiGraph, graph_data["R"])
          /\ R_graph_nx' = r_returned'
          /\ rgraph_pc' = "done"
    /\ UNCHANGED graph_data
    /\ UNCHANGED rgraphFrame

RGraphNext == BuildRGraph \/ MethodBuildRGraph

(***************************************************************************)
(* The graph store (Neo4j): the nodes, each with its set of labels and its *)
(* properties, and the relationships, each between two stored nodes (named *)
(* by their position: nodes are never deleted), with a type and            *)
(* properties.                                                             *)
(***************************************************************************)
EmptyStore == [nodes |-> <<>>, edges |-> <<>>]

\* MATCH (a {id: $id}): the stored nodes whose id property is the one given.
MatchNodes_Unbound(S, id) ==
    LET found == {i \in DOMAIN S.nodes :
                    "id" \in DOMAIN S.nodes[i].props /\ S.nodes[i].props.id = id}
    IN IF found = {} THEN {0} ELSE found

MatchNodes(S, id) ==
    {i \in DOMAIN S.nodes :
       "id" \in DOMAIN S.nodes[i].props /\ S.nodes[i].props.id = id}

\* MERGE (n:L1:L2 {key: value}): the nodes carrying every label and the
\* property; one is created when there is none.
MergeNode(S, labels, key, value) ==
    LET found == {i \in DOMAIN S.nodes :
                    /\ labels \subseteq S.nodes[i].labels
                    /\ key \in DOMAIN S.nodes[i].props
                    /\ S.nodes[i].props[key] = value}
    IN IF found # {} THEN S
       ELSE [S EXCEPT !.nodes =
               Append(S.nodes, [labels |-> labels,
                                props |-> [k \in {key} |-> value]])]

MergedNodes(S, labels, key, value) ==
    {i \in DOMAIN S.nodes :
       /\ labels \subseteq S.nodes[i].labels
       /\ key \in DOMAIN S.nodes[i].props
       /\ S.nodes[i].props[key] = value}

\* neo4j_book2graph.py lines 177-188: create_node(tx, node);
\* MERGE (n:labels {id: $id}) SET n += {props, id}
create_node(S, node) ==
    LET labels == Range(node.labels)
        props == Updated(node.properties, [id |-> node.id])
        S1 == MergeNode(S, labels, "id", node.id)
        hit == MergedNodes(S1, labels, "id", node.id)
    IN [S1 EXCEPT !.nodes =
          [i \in DOMAIN S1.nodes |->
             IF i \in hit
             THEN [S1.nodes[i] EXCEPT !.props = Updated(S1.nodes[i].props, props)]
             ELSE S1.nodes[i]]]

\* MERGE (a)-[r:type {match}]->(b) SET r += props, for one bound pair (a, b):
\* the relationships of that type from a to b holding the properties to
\* match are updated; one is created when there is none.
MergeEdge(S, a, b, type, match, props) ==
    LET found == {i \in DOMAIN S.edges :
                    /\ S.edges[i].a = a /\ S.edges[i].b = b
                    /\ S.edges[i].type = type
                    /\ \A k \in DOMAIN match :
                          k \in DOMAIN S.edges[i].props
                          /\ S.edges[i].props[k] = match[k]}
    IN IF found # {}
       THEN [S EXCEPT !.edges =
               [i \in DOMAIN S.edges |->
                  IF i \in found
                  THEN [S.edges[i] EXCEPT !.props = Updated(S.edges[i].props, props)]
                  ELSE S.edges[i]]]
       ELSE [S EXCEPT !.edges =
               Append(S.edges, [a |-> a, b |-> b, type |-> type,
                                props |-> Updated(match, props)])]

\* The MERGE of a relationship runs once per bound pair, in binding order.
RECURSIVE MergeEdges(_, _, _, _, _, _)
MergeEdges(S, as, bs, type, match, props) ==
    IF as = {} \/ bs = {} THEN S
    ELSE LET a == CHOOSE x \in as : \A y \in as : x <= y
             b == CHOOSE x \in bs : \A y \in bs : x <= y
             rest == MergeEdges(MergeEdge(S, a, b, type, match, props),
                                {a}, bs \ {b}, type, match, props)
         IN MergeEdges(rest, as \ {a}, bs, type, match, props)

\* neo4j_book2graph.py lines 190-202: create_relationship(tx, relationship);
\* a MATCH that binds nothing leaves nothing to MERGE.
create_relationship(S, relationship) ==
    MergeEdges(S, MatchNodes(S, relationship.start_node_id),
               MatchNodes(S, relationship.end_node_id),
               relationship.type, NoAttrs,
               Get(relationship, "properties", NoAttrs))

(***************************************************************************)
(* write_graph_to_neo4j(graph_json): one write transaction per node, then  *)
(* one per relationship.                                                   *)
(***************************************************************************)
\* The node and relationship records written to the store in one run.
MaxWritten == 4

\* neo4j_book2graph.py lines 204-206 (called at line 238)
WriteStart ==
    /\ write_pc = "ready"
    /\ \E k \in 0..(MaxWritten - written) : graph_json' \in GraphsOfSize(k)
    /\ written' = written + RecordCount(<<graph_json'>>)
    /\ write_i' = 0
    /\ write_pc' = "writing"
    /\ UNCHANGED <<store, insert_pc>>
    /\ UNCHANGED storeFrame

\* neo4j_book2graph.py lines 209-210
WriteNode ==
    /\ write_pc = "writing"
    /\ write_i < Len(Get(graph_json, "nodes", <<>>))
    /\ store' = create_node(store, Get(graph_json, "nodes", <<>>)[write_i + 1])
    /\ write_i' = write_i + 1
    /\ UNCHANGED <<graph_json, written, write_pc, insert_pc>>
    /\ UNCHANGED storeFrame

\* neo4j_book2graph.py lines 211-212
WriteRelationship ==
    LET nodes == Get(graph_json, "nodes", <<>>)
        relationships == Get(graph_json, "relationships", <<>>)
    IN /\ write_pc = "writing"
       /\ write_i >= Len(nodes)
       /\ write_i < Len(nodes) + Len(relationships)
       /\ store' = create_relationship(store, relationships[write_i - Len(nodes) + 1])
       /\ write_i' = write_i + 1
       /\ UNCHANGED <<graph_json, written, write_pc, insert_pc>>
       /\ UNCHANGED storeFrame

\* neo4j_book2graph.py line 214
WriteReturn ==
    /\ write_pc = "writing"
    /\ write_i = Len(Get(graph_json, "nodes", <<>>))
                 + Len(Get(graph_json, "relationships", <<>>))
    /\ write_pc' = "ready"
    /\ UNCHANGED <<graph_json, store, write_i, written, insert_pc>>
    /\ UNCHANGED storeFrame

(***************************************************************************)
(* insert_r_graph(tx, data["R"]): the whole loop is one write transaction. *)
(***************************************************************************)
FactKeys == {"time", "relationship", "event"}

\* neo4j_builder.py lines 17-20: edge["R"] and rel["time"], rel["relationship"],
\* rel["event"] are subscripts: a missing key raises.
InsertRaises(r_graph) ==
    \E i \in DOMAIN r_graph :
       IF "R" \notin DOMAIN r_graph[i] THEN TRUE
       ELSE \E j \in DOMAIN r_graph[i].R :
               ~(FactKeys \subseteq DOMAIN r_graph[i].R[j])

\* neo4j_builder.py lines 23-38: one statement per fact.
InsertFact(S, E1, E2, rel) ==
    LET S1 == MergeNode(S, {"Entity"}, "name", E1)
        S2 == MergeNode(S1, {"Entity"}, "name", E2)
    IN MergeEdges(S2, MergedNodes(S2, {"Entity"}, "name", E1),
                  MergedNodes(S2, {"Entity"}, "name", E2),
                  "RELATED_TO",
                  [time |-> rel.time, relationship |-> rel.relationship,
                   event |-> rel.event],
                  NoAttrs)

RECURSIVE InsertFacts(_, _, _, _)
InsertFacts(S, E1, E2, rels) ==
    IF rels = <<>> THEN S
    ELSE InsertFacts(InsertFact(S, E1, E2, Head(rels)), E1, E2, Tail(rels))

\* neo4j_builder.py lines 14-17
RECURSIVE insert_r_graph(_, _)
insert_r_graph(S, r_graph) ==
    IF r_graph = <<>> THEN S
    ELSE insert_r_graph(InsertFacts(S, Head(r_graph).E1, Head(r_graph).E2,
                                    Head(r_graph).R),
                        Tail(r_graph))

\* neo4j_builder.py line 60: data["R"] raises when the document has no such
\* key, and so may the loop.
InsertFails(data) ==
    IF data = None THEN TRUE
    ELSE IF "R" \notin DOMAIN data THEN TRUE
    ELSE InsertRaises(data["R"])

\* neo4j_builder.py line 60: session.write_transaction(insert_r_graph,
\* data["R"]); an exception rolls the transaction back.
InsertRGraph ==
    /\ insert_pc = "call"
    /\ \/ /\ InsertFails(graph_data)
          /\ insert_pc' = "raised"
          /\ store' = store
       \/ /\ ~InsertFails(graph_data)
          /\ store' = insert_r_graph(store, graph_data["R"])
          /\ insert_pc' = "done"
    /\ UNCHANGED <<graph_json, write_i, written, write_pc>>
    /\ UNCHANGED storeFrame

StoreNext ==
    \/ BuildRGraph \/ MethodBuildRGraph \/ InsertRGraph
    \/ WriteStart \/ WriteNode \/ WriteRelationship \/ WriteReturn

(***************************************************************************)
(* build_l_dict: the L-dictionary is a dict from entity to the list of its *)
(* {label, time} pairs.                                                    *)
(***************************************************************************)
MaxLabels == 3

\* The "L" entries; the last one lacks its "time".
LEntries ==
    { [Label |-> "Person", Entity |-> "Alice", time |-> "t1"],
      [Label |-> "Instructor", Entity |-> "Alice", time |-> "t2"],
      [Label |-> "Person", Entity |-> "Bob", time |-> "t1"],
      [Label |-> "Person", Entity |-> "Bob"] }

LEntryKeys == {"Label", "Entity", "time"}

\* The "R" lists the assembler is run on together with an "L" list.
AssembleR ==
    { <<>>,
      <<[E1 |-> "Alice", E2 |-> "Bob", R |-> <<[time |-> "2024-01", relationship |-> "met"]>>]>>,
      <<[E1 |-> "Bob", E2 |-> "Alice"]>> }

\* builder.graph_data with both halves, or with one of the keys absent.
AssembleData ==
    { None, [x \in {} |-> <<>>] }
    \cup { [R |-> r] : r \in AssembleR }
    \cup { [L |-> l] : l \in SeqsUpTo(LEntries, MaxLabels) }
    \cup { [R |-> r, L |-> l] : r \in AssembleR, l \in SeqsUpTo(LEntries, MaxLabels) }

\* build_graphs.py lines 55-58: L_dict[entity].append({...})
AppendLabel_Dedup(labels, pair) ==
    IF pair \in Range(labels) THEN labels ELSE Append(labels, pair)

AppendLabel(labels, pair) == Append(labels, pair)

\* build_graphs.py lines 48-58: one entry of the loop.
AddLabel(d, entry) ==
    LET pair == [label |-> entry.Label, time |-> entry.time]
    IN IF DictHas(d, entry.Entity)
       THEN [i \in DOMAIN d |->
               IF d[i][1] = entry.Entity
               THEN <<d[i][1], AppendLabel(d[i][2], pair)>> ELSE d[i]]
       ELSE Append(d, <<entry.Entity, AppendLabel(<<>>, pair)>>)

\* build_graphs.py lines 47-58: the loop over the entries.
RECURSIVE AddLabels(_, _)
AddLabels(d, entries) ==
    IF entries = <<>> THEN d
    ELSE AddLabels(AddLabel(d, Head(entries)), Tail(entries))

\* entry["Label"], entry["Entity"], entry["time"] are subscripts.
LabelsRaise(entries) ==
    \E i \in DOMAIN entries : ~(LEntryKeys \subseteq DOMAIN entries[i])

HasKey(data, key) ==
    IF data = None THEN FALSE ELSE key \in DOMAIN data

\* build_graphs.py lines 34-62: build_l_dict(builder), called by
\* build_all_graphs (line 72) once build_r_graph has returned.
BuildLDict ==
    /\ ldict_pc = "call" /\ rgraph_pc = "done"
    /\ \/ /\ ~HasKey(graph_data, "L")
          /\ l_returned' = <<>>
          /\ L_dict' = AfterEarlyReturn(L_dict, l_returned')
          /\ ldict_pc' = "done"
       \/ /\ HasKey(graph_data, "L") /\ LabelsRaise(graph_data["L"])
          /\ ldict_pc' = "raised"
          /\ UNCHANGED <<L_dict, l_returned>>
       \/ /\ HasKey(graph_data, "L") /\ ~LabelsRaise(graph_data["L"])
          /\ l_returned' = AddLabels(<<>>, graph_data["L"])
          /\ L_dict' = l_returned'
          /\ ldict_pc' = "done"
    /\ UNCHANGED ldictFrame

\* graph_generation.py lines 131-146: MemoryGraphBuilder.build_l_dict(self),
\* called by run (line 190) once self.build_r_graph() has returned;
\* self.graph_data["L"] raises when there is no such key.
MethodBuildLDict ==
    /\ ldict_pc = "call" /\ rgraph_pc = "done"
    /\ \/ /\ IF HasKey(graph_data, "L") THEN LabelsRaise(graph_data["L"]) ELSE TRUE
          /\ ldict_pc' = "raised"
          /\ UNCHANGED <<L_dict, l_returned>>
       \/ /\ IF HasKey(graph_data, "L") THEN ~LabelsRaise(graph_data["L"]) ELSE FALSE
          /\ l_returned' = AddLabels(<<>>, graph_data["L"])
          /\ L_dict' = l_returned'
          /\ ldict_pc' = "done"
    /\ UNCHANGED ldictFrame

AssembleNext == BuildRGraph \/ MethodBuildRGraph \/ BuildLDict \/ MethodBuildLDict

(***************************************************************************)
(* Embeddings and their cosine similarity.  An embedding is a vector of    *)
(* integers of integral norm.  A score is the real number                  *)
(* n / (d + k * 1e-8), kept as the record [n, d, k] with d + k > 0: the    *)
(* similarities have k = 1, the literals (-1.0, 0.55) have k = 0.  The     *)
(* scores are compared exactly: 1e-8 is smaller than any difference        *)
(* between two of the integers involved.                                   *)
(***************************************************************************)
MaxIndex == 3

ZeroVector == <<0, 0>>

\* The vectors embed_text answers with, and the index file holds.
Vectors == { <<3, 4>>, <<4, 3>>, <<5, 0>>, <<0, 5>>, <<-3, -4>>, ZeroVector }

Dot(a, b) == a[1] * b[1] + a[2] * b[2]

\* numpy.linalg.norm
Norm(a) == CHOOSE r \in 0..(Dot(a, a)) : r * r = Dot(a, a)

\* neo4j_gpt_qa.py line 42: np.dot(a, b) / (norm(a) * norm(b) + 1e-8)
cosine_similarity(a, b) == [n |-> Dot(a, b), d |-> Norm(a) * Norm(b), k |-> 1]

\* x < y for two scores.
Less(x, y) ==
    LET whole == x.n * y.d - y.n * x.d
        tiny == x.n * y.k - y.n * x.k
    IN whole < 0 \/ (whole = 0 /\ tiny < 0)

\* neo4j_gpt_qa.py line 110: best_score = -1.0
MinusOne == [n |-> -1, d |-> 1, k |-> 0]

\* neo4j_gpt_qa.py line 104: threshold=0.55
DefaultThreshold == [n |-> 11, d |-> 20, k |-> 0]

\* The thresholds a caller passes: the default, 0.0, 0.6, 0.8, -1.0, and
\* the similarity of two of the vectors.
Thresholds ==
    { DefaultThreshold, [n |-> 0, d |-> 1, k |-> 0], [n |-> 3, d |-> 5, k |-> 0],
      [n |-> 4, d |-> 5, k |-> 0], MinusOne,
      cosine_similarity(<<3, 4>>, <<5, 0>>), cosine_similarity(<<3, 4>>, <<0, 5>>) }

\* Python's None where a node name is expected.
NoName == "None"

\* The names of the index entries, by position: no two entries share a name.
NameAt(i) == <<"Paris", "London", "Rome", "Oslo", "Bern">>[i]

\* The index files: entries {name, embedding}.
Indexes ==
    UNION { { [i \in 1..m |-> [name |-> NameAt(i), embedding |-> es[i]]] :
                es \in [1..m -> Vectors] } : m \in 0..MaxIndex }

(***************************************************************************)
(* find_best_matching_node(question_text, index, threshold)                *)
(***************************************************************************)
\* neo4j_gpt_qa.py line 114: sim > best_score
Better_OrEqual(sim, best) == ~Less(sim, best)

Better(sim, best) == Less(best, sim)

\* neo4j_gpt_qa.py line 118: best_score >= threshold
Passes_Strict(best, thr) == Less(thr, best)

Passes(best, thr) == ~Less(best, thr)

\* neo4j_gpt_qa.py lines 113-116: one item of the scan; best is the pair
\* <<best_name, best_score>>.
ScanItem(best, q, item) ==
    LET sim == cosine_similarity(q, item.embedding)
    IN IF Better(sim, best[2]) THEN <<item.name, sim>> ELSE best

\* neo4j_gpt_qa.py lines 108-110: query_emb = embed_text(question_text)
ResolveEmbed ==
    /\ resolve_pc = "embed"
    /\ \E v \in Vectors : query_emb' = v
    /\ embed_calls' = embed_calls + 1
    /\ best_name' = NoName /\ best_score' = MinusOne
    /\ scan_i' = 0
    /\ resolve_pc' = "scan"
    /\ UNCHANGED <<index, threshold, matched>>
    /\ UNCHANGED resolveFrame

\* neo4j_gpt_qa.py lines 112-116
ResolveScan ==
    /\ resolve_pc = "scan"
    /\ scan_i < Len(index)
    /\ LET best == ScanItem(<<best_name, best_score>>, query_emb, index[scan_i + 1])
       IN best_name' = best[1] /\ best_score' = best[2]
    /\ scan_i' = scan_i + 1
    /\ UNCHANGED <<index, threshold, query_emb, embed_calls, matched, resolve_pc>>
    /\ UNCHANGED resolveFrame

\* neo4j_gpt_qa.py lines 118-123
ResolveReturn ==
    /\ resolve_pc = "scan"
    /\ scan_i = Len(index)
    /\ matched' = IF Passes(best_score, threshold) THEN best_name ELSE NoName
    /\ resolve_pc' = "done"
    /\ UNCHANGED <<index, threshold, query_emb, best_name, best_score, scan_i, embed_calls>>
    /\ UNCHANGED resolveFrame

ResolveNext == ResolveEmbed \/ ResolveScan \/ ResolveReturn

(***************************************************************************)
(* Texts of the question-answering path are sequences of tokens: a         *)
(* backquote, a space, a newline, a word or a whole statement.             *)
(***************************************************************************)
MaxQuestions == 2

Tick == "<backquote>"
SP == " "
FenceMark == <<Tick, Tick, Tick>>

\* str.lower on the words of the model.
Lower(w) ==
    CASE w = "Paris" -> "paris"
      [] w = "London" -> "london"
      [] w = "Rome" -> "rome"
      [] w = "Oslo" -> "oslo"
      [] w = "Bern" -> "bern"
      [] w = "SQL" -> "sql"
      [] OTHER -> w

\* neo4j_gpt_qa.py line 187: ["cypher", "python", "sql"]
KnownTags == {"cypher", "python", "sql"}

StartsWith(s, p) == Len(p) <= Len(s) /\ SubSeq(s, 1, Len(p)) = p

\* str.strip("`")
StripTicks(s) ==
    LET keep == {i \in DOMAIN s : s[i] # Tick}
    IN IF keep = {} THEN <<>>
       ELSE SubSeq(s, CHOOSE i \in keep : \A j \in keep : i <= j,
                      CHOOSE i \in keep : \A j \in keep : i >= j)

\* str.splitlines
RECURSIVE SplitLines(_)
SplitLines(s) ==
    IF s = <<>> THEN <<>>
    ELSE LET nls == {i \in DOMAIN s : s[i] = NL}
         IN IF nls = {} THEN <<s>>
            ELSE LET i == CHOOSE x \in nls : \A y \in nls : x <= y
                 IN <<SubSeq(s, 1, i - 1)>> \o SplitLines(SubSeq(s, i + 1, Len(s)))

\* "\n".join(lines)
RECURSIVE JoinLines(_)
JoinLines(lines) ==
    IF lines = <<>> THEN <<>>
    ELSE IF Len(lines) = 1 THEN lines[1]
    ELSE lines[1] \o <<NL>> \o JoinLines(Tail(lines))

\* neo4j_gpt_qa.py line 187: lines[0].lower() in ["cypher", "python", "sql"]
IsTagLine(line) == Len(line) = 1 /\ Lower(line[1]) \in KnownTags

\* neo4j_gpt_qa.py lines 183-192
clean_cypher_query_FenceKept(raw) == Strip(raw)

clean_cypher_query(raw) ==
    IF StartsWith(raw, FenceMark)
    THEN LET lines == SplitLines(StripTicks(raw))
             untagged == IF lines # <<>> /\ IsTagLine(lines[1])
                         THEN Tail(lines) ELSE lines
             trimmed == IF untagged # <<>> /\ Strip(untagged[Len(untagged)]) = <<>>
                        THEN SubSeq(untagged, 1, Len(untagged) - 1) ELSE untagged
         IN Strip(JoinLines(trimmed))
    ELSE Strip(raw)

\* neo4j_gpt_qa.py lines 164-169: the tail of question_to_cypher, given the
\* content of the completion.
question_to_cypher(content) ==
    IF Strip(content) # <<>> THEN clean_cypher_query(Strip(content)) ELSE <<>>

\* neo4j_gpt_qa.py lines 171-181: the template is indented and not stripped.
generate_cypher_for_node(node_name) ==
    <<NL, SP, "MATCH path = (n)-[*1..3]-(m) WHERE toLower(n.name) CONTAINS",
      Lower(node_name),
      "RETURN nodes(path) AS nodes, relationships(path) AS relationships LIMIT 50",
      NL, SP>>

Statement == "MATCH (n) RETURN n"
Malformed == "Sorry, I cannot"

\* What the completion collaborator answers a translation request with.
Translations ==
    { <<Statement>>,
      <<SP, Statement, NL>>,
      FenceMark \o <<"cypher", NL, Statement, NL>> \o FenceMark,
      FenceMark \o <<"SQL", NL, Statement>> \o FenceMark,
      FenceMark \o <<NL, Statement, NL>> \o FenceMark \o <<NL>>,
      FenceMark \o <<"neo4j", NL, Statement, NL>> \o FenceMark,
      FenceMark \o <<"cypher", NL, Statement, NL, SP, NL>> \o FenceMark,
      FenceMark,
      <<>>,
      <<NL, SP>>,
      <<Malformed>>,
      <<Malformed, NL>> \o FenceMark \o <<"cypher", NL, Statement, NL>> \o FenceMark,
      FenceMark \o <<"cypher", NL, Statement, NL>> \o FenceMark \o <<NL, Malformed>> }

(***************************************************************************)
(* The persisted files and the collaborators of handle_question.           *)
(***************************************************************************)
\* The provenance log file: absent, of size 0, or holding a JSON array.
AbsentFile == [file |-> "absent", data |-> <<>>]
EmptyFile == [file |-> "empty", data |-> <<>>]
ArrayFile(data) == [file |-> "array", data |-> data]

OldRecord ==
    [question |-> "q0", cypher_query |-> <<Statement>>,
     graph_trace |-> <<>>, answer |-> <<"no">>]

LogFiles == { AbsentFile, EmptyFile, ArrayFile(<<>>), ArrayFile(<<OldRecord>>) }

\* neo4j_gpt_qa.py lines 217-230: save_to_json(data, path)
save_to_json_Overwrite(log, data) == ArrayFile(<<data>>)

save_to_json(log, data) ==
    LET all_data == IF log.file = "array" THEN log.data ELSE <<>>
    IN ArrayFile(Append(all_data, data))

Questions == {"q1", "q2"}

\* The index file handle_question loads.
QAIndexes ==
    { <<>>,
      <<[name |-> "Paris", embedding |-> <<3, 4>>],
        [name |-> "London", embedding |-> <<0, 5>>]>> }

\* The embeddings embed_text answers a question with.
QuestionVectors == { <<3, 4>>, <<0, 5>>, <<-3, -4>> }

\* The result rows of the store, and the contents of a synthesis answer.
ResultRows == { <<>>, <<[nodes |-> <<"Paris">>, relationships |-> <<>>]>> }
AnswerContents == { <<>>, <<SP, "Paris.", NL>> }

\* The steps of handle_question that call a collaborator or the store.
NoStep == "none"
NoCalls == [step \in {"embed", "translate", "execute", "synthesize", "save"} |-> 0]
Called(made, step) == [made EXCEPT ![step] = @ + 1]

\* handle_question has no try: an exception of a step leaves the function.
Propagate_Swallowed(step, next) == next

Propagate(step, next) == "raised"

\* neo4j_gpt_qa.py line 239: `if matched_node:`
Truthy_Never(name) == FALSE

Truthy(name) == name # NoName /\ name # ""

\* neo4j_gpt_qa.py lines 108-123 in one piece, given the query embedding.
RECURSIVE Scan(_, _, _)
Scan(best, q, items) ==
    IF items = <<>> THEN best
    ELSE Scan(ScanItem(best, q, Head(items)), q, Tail(items))

find_best_matching_node(q, ix, thr) ==
    LET best == Scan(<<NoName, MinusOne>>, q, ix)
    IN IF Passes(best[2], thr) THEN best[1] ELSE NoName

(***************************************************************************)
(* handle_question(question, schema)                                       *)
(***************************************************************************)
\* neo4j_gpt_qa.py lines 234-236: the caller asks; a caller whose last
\* question raised may ask again.
Ask ==
    /\ qa_pc \in {"idle", "raised"}
    /\ asked < MaxQuestions
    /\ \E q \in Questions : question' = q
    /\ asked' = asked + 1
    /\ matched_node' = NoName /\ cypher_query' = <<>> /\ cypher_result' = <<>>
    /\ answer' = <<>> /\ qa_calls' = NoCalls /\ qa_error' = NoStep
    /\ translation' = <<>> /\ qa_trace' = <<>>
    /\ qa_pc' = "resolve"
    /\ UNCHANGED <<log_file, log_start, answered>>
    /\ UNCHANGED qaFrame

\* neo4j_gpt_qa.py line 237: find_best_matching_node(question, index)
Resolve ==
    /\ qa_pc = "resolve"
    /\ qa_calls' = Called(qa_calls, "embed")
    /\ \/ /\ \E v \in QuestionVectors :
                matched_node' = find_best_matching_node(v, index, DefaultThreshold)
          /\ qa_trace' = Append(qa_trace, [step |-> "resolve"])
          /\ qa_pc' = "translate"
          /\ UNCHANGED qa_error
       \/ /\ qa_error' = "embed"
          /\ qa_pc' = Propagate("embed", "translate")
          /\ UNCHANGED <<matched_node, qa_trace>>
    /\ UNCHANGED <<question, asked, translation, cypher_query, cypher_result,
                   answer, log_file, log_start, answered>>
    /\ UNCHANGED qaFrame

\* neo4j_gpt_qa.py lines 239-242
Translate ==
    /\ qa_pc = "translate"
    /\ \/ /\ Truthy(matched_node)
          /\ cypher_query' = generate_cypher_for_node(matched_node)
          /\ qa_trace' = Append(qa_trace, [step |-> "translate", query |-> cypher_query'])
          /\ qa_pc' = "execute"
          /\ UNCHANGED <<qa_calls, qa_error, translation>>
       \/ /\ ~Truthy(matched_node)
          /\ qa_calls' = Called(qa_calls, "translate")
          /\ \/ /\ \E content \in Translations :
                      /\ translation' = content
                      /\ cypher_query' = question_to_cypher(content)
                /\ qa_trace' = Append(qa_trace, [step |-> "translate",
                                                 query |-> cypher_query'])
                /\ qa_pc' = "execute"
                /\ UNCHANGED qa_error
             \/ /\ qa_error' = "translate"
                /\ qa_pc' = Propagate("translate", "execute")
                /\ UNCHANGED <<cypher_query, translation, qa_trace>>
    /\ UNCHANGED <<question, asked, matched_node, cypher_result, answer,
                   log_file, log_start, answered>>
    /\ UNCHANGED qaFrame

\* neo4j_gpt_qa.py line 244: run_cypher_query(cypher_query)
Execute ==
    /\ qa_pc = "execute"
    /\ qa_calls' = Called(qa_calls, "execute")
    /\ \/ /\ \E rows \in ResultRows : cypher_result' = rows
          /\ qa_trace' = Append(qa_trace, [step |-> "execute", query |-> cypher_query,
                                           rows |-> cypher_result'])
          /\ qa_pc' = "synthesize"
          /\ UNCHANGED qa_error
       \/ /\ qa_error' = "execute"
          /\ qa_pc' = Propagate("execute", "synthesize")
          /\ UNCHANGED <<cypher_result, qa_trace>>
    /\ UNCHANGED <<question, asked, matched_node, translation, cypher_query,
                   answer, log_file, log_start, answered>>
    /\ UNCHANGED qaFrame

\* neo4j_gpt_qa.py line 245: answer_with_gpt(question, cypher_result);
\* lines 212-213: answer.strip() if answer else ""
Synthesize ==
    /\ qa_pc = "synthesize"
    /\ qa_calls' = Called(qa_calls, "synthesize")
    /\ \/ /\ \E content \in AnswerContents : answer' = Strip(content)
          /\ qa_trace' = Append(qa_trace, [step |-> "synthesize", question |-> question,
                                           rows |-> cypher_result, answer |-> answer'])
          /\ qa_pc' = "save"
          /\ UNCHANGED qa_error
       \/ /\ qa_error' = "synthesize"
          /\ qa_pc' = Propagate("synthesize", "save")
          /\ UNCHANGED <<answer, qa_trace>>
    /\ UNCHANGED <<question, asked, matched_node, translation, cypher_query,
                   cypher_result, log_file, log_start, answered>>
    /\ UNCHANGED qaFrame

\* neo4j_gpt_qa.py lines 200 and 244: run_cypher_query returns
\* (records, records); the second is trace_info.
trace_info_Dropped(records) == <<>>

trace_info(records) == records

\* neo4j_gpt_qa.py lines 247-257: the record is saved, the answer returned.
Save ==
    /\ qa_pc = "save"
    /\ LET record == [question |-> question, cypher_query |-> cypher_query,
                      graph_trace |-> trace_info(cypher_result), answer |-> answer]
       IN /\ log_file' = save_to_json(log_file, record)
          /\ answered' = Append(answered, record)
    /\ qa_trace' = Append(qa_trace, [step |-> "save"])
    /\ qa_calls' = Called(qa_calls, "save")
    /\ qa_pc' = "idle"
    /\ UNCHANGED <<question, asked, matched_node, translation, cypher_query,
                   cypher_result, answer, log_start, qa_error>>
    /\ UNCHANGED qaFrame

QANext == Ask \/ Resolve \/ Translate \/ Execute \/ Synthesize \/ Save

(***************************************************************************)
(* build_node_embedding_index(schema, output_path), with the               *)
(* extract_all_node_names in force (the second definition of the module).  *)
(* A node name is a text (a sequence of tokens) or is missing.             *)
(***************************************************************************)
MaxNodes == 3

\* LIMIT 10000 of the query, scaled to the stores of the model.
RowLimit == 2

NodeLabels == {"Person", "Place"}

\* The nodes of the store at build time: any labels (none, too), and a name
\* that is missing, blank, plain or padded.
IndexedNodes ==
    { [labels |-> ls, props |-> [name |-> n]] :
        ls \in {{}, {"Person"}, {"Person", "Place"}},
        n \in {<<SP>>, <<"Paris">>, <<"Paris", SP>>, <<"Rome">>} }
    \cup { [labels |-> ls, props |-> NoAttrs] :
             ls \in {{}, {"Person"}, {"Person", "Place"}} }

\* neo4j_gpt_qa.py lines 49-51: CALL db.labels()
DbLabels(S) == UNION {S.nodes[i].labels : i \in DOMAIN S.nodes}

\* neo4j_gpt_qa.py lines 264-270: MATCH (n:label) RETURN DISTINCT n.name AS
\* name, n LIMIT 10000: one row per node of the label, RowLimit rows at most,
\* whichever the store returns.
LimitedRows(S, label) ==
    LET rows == {i \in DOMAIN S.nodes : label \in S.nodes[i].labels}
    IN IF Cardinality(rows) <= RowLimit THEN {rows}
       ELSE {some \in SUBSET rows : Cardinality(some) = RowLimit}

\* neo4j_gpt_qa.py lines 272-273: `if name and name.strip()`
Named_Any(node) == "name" \in DOMAIN node.props

Named(node) == "name" \in DOMAIN node.props /\ Strip(node.props.name) # <<>>

\* neo4j_gpt_qa.py lines 271-274: names.add(name.strip()) over the rows.
NamesOfRows(S, rows) ==
    {Strip(S.nodes[i].props.name) : i \in {j \in rows : Named(S.nodes[j])}}

\* list(names): the elements of a set, in an order of its own.
ListsOf(set) ==
    {l \in [1..Cardinality(set) -> set] : \A i, j \in DOMAIN l : l[i] = l[j] => i = j}

\* neo4j_gpt_qa.py lines 84 and 259-280: extract_all_node_names(schema),
\* the schema being get_graph_schema() of the store.
BuildExtract ==
    /\ build_pc = "extract"
    /\ \E rows \in [DbLabels(store) -> SUBSET DOMAIN store.nodes] :
          /\ \A label \in DbLabels(store) : rows[label] \in LimitedRows(store, label)
          /\ names' \in ListsOf(NamesOfRows(store, UNION {rows[l] : l \in DbLabels(store)}))
    /\ new_index' = <<>>
    /\ build_pc' = "embed"
    /\ UNCHANGED <<index_file, build_calls>>
    /\ UNCHANGED buildFrame

\* neo4j_gpt_qa.py lines 86-91: one name of the loop; embed_text may raise.
BuildEmbed ==
    /\ build_pc = "embed"
    /\ Len(new_index) < Len(names)
    /\ build_calls' = build_calls + 1
    /\ \/ /\ \E v \in QuestionVectors :
                new_index' = Append(new_index,
                                    [name |-> names[Len(new_index) + 1], embedding |-> v])
          /\ build_pc' = "embed"
       \/ /\ build_pc' = "raised"
          /\ UNCHANGED new_index
    /\ UNCHANGED <<names, index_file>>
    /\ UNCHANGED buildFrame

\* neo4j_gpt_qa.py lines 92-94: json.dump(index, f)
BuildWrite ==
    /\ build_pc = "embed"
    /\ Len(new_index) = Len(names)
    /\ index_file' = ArrayFile(new_index)
    /\ build_pc' = "done"
    /\ UNCHANGED <<names, new_index, build_calls>>
    /\ UNCHANGED buildFrame

BuildNext == BuildExtract \/ BuildEmbed \/ BuildWrite

(***************************************************************************)
(* The specifications.                                                     *)
(***************************************************************************)
(* __main__ of neo4j_book2graph.py: the book is split, each chunk is       *)
(* extracted, the chunk graphs are merged, saved and written to the store. *)
(***************************************************************************)
MaxChunks == 2

\* line 219: max_tokens=3000, here the length of a paragraph with its
\* separator.
IngestMaxTokens == 3

\* A book of k paragraphs, each a chunk of its own under IngestMaxTokens.
RECURSIVE BookText(_)
BookText(k) ==
    IF k = 0 THEN <<>>
    ELSE IF k = 1 THEN <<"a">>
    ELSE BookText(k - 1) \o ParaSep \o <<"a">>

\* lines 223-229: the loop goes on to the next chunk after an exception.
AfterChunk_Break(i, n, raised) == IF raised THEN n ELSE i + 1

AfterChunk(i, n, raised) == i + 1

\* line 226: all_graphs.append(chunk_graph)
CollectChunk_Front(graphs, chunk_graph) == <<chunk_graph>> \o graphs

CollectChunk(graphs, chunk_graph) == Append(graphs, chunk_graph)

\* lines 223-225: extract_graph_from_chunk(chunk, idx) is called with the
\* default num_repeats (5 at line 71, here the bound).
IngestCall ==
    /\ ingest_pc = "loop"
    /\ split_pc = "done"
    /\ idx < Len(chunks)
    /\ num_repeats' = MaxRepeats
    /\ pass_i' = 0 /\ responses' = <<>> /\ all_graphs' = <<>> /\ calls' = 0
    /\ merged_graph' = EmptyGraph
    /\ extract_pc' = "loop"
    /\ ingest_pc' = "extract"
    /\ UNCHANGED <<idx, main_all_graphs, out_file, chunk_log, logged>>
    /\ UNCHANGED <<splitVars, mergeVars, rgraphVars, storeVars, ldictVars,
                   resolveVars, qaVars, buildVars, pipelineVars, rebuildVars,
                   recordVars>>

\* lines 225-226: the chunk graph is appended; the locals of the call are gone.
IngestCollect ==
    /\ ingest_pc = "extract"
    /\ extract_pc = "done"
    /\ main_all_graphs' = CollectChunk(main_all_graphs, merged_graph)
    /\ chunk_log' = Append(chunk_log, [raised |-> FALSE, passes |-> all_graphs,
                                       graph |-> merged_graph])
    /\ idx' = AfterChunk(idx, Len(chunks), FALSE)
    /\ ingest_pc' = "loop"
    /\ num_repeats' = 0
    /\ pass_i' = 0 /\ responses' = <<>> /\ all_graphs' = <<>> /\ calls' = 0
    /\ merged_graph' = EmptyGraph
    /\ extract_pc' = "idle"
    /\ UNCHANGED <<out_file, logged>>
    /\ UNCHANGED <<splitVars, mergeVars, rgraphVars, storeVars, ldictVars,
                   resolveVars, qaVars, buildVars, pipelineVars, rebuildVars,
                   recordVars>>

\* lines 227-228: except Exception: the error is printed.
IngestSkip ==
    /\ ingest_pc = "extract"
    /\ extract_pc = "raised"
    /\ logged' = Append(logged, idx)
    /\ chunk_log' = Append(chunk_log, [raised |-> TRUE, passes |-> all_graphs,
                                       graph |-> None])
    /\ idx' = AfterChunk(idx, Len(chunks), TRUE)
    /\ ingest_pc' = "loop"
    /\ num_repeats' = 0
    /\ pass_i' = 0 /\ responses' = <<>> /\ all_graphs' = <<>> /\ calls' = 0
    /\ merged_graph' = EmptyGraph
    /\ extract_pc' = "idle"
    /\ UNCHANGED <<main_all_graphs, out_file>>
    /\ UNCHANGED <<splitVars, mergeVars, rgraphVars, storeVars, ldictVars,
                   resolveVars, qaVars, buildVars, pipelineVars, rebuildVars,
                   recordVars>>

\* line 231: final_graph = merge_graph_data(all_graphs)
IngestMerge ==
    /\ ingest_pc = "loop"
    /\ split_pc = "done"
    /\ idx >= Len(chunks)
    /\ final_graph' = merge_graph_data(main_all_graphs)
    /\ ingest_pc' = "save"
    /\ UNCHANGED <<graph_list, merge_pc>>
    /\ UNCHANGED ingestVarsButPc
    /\ UNCHANGED <<splitVars, extractVars, rgraphVars, storeVars, ldictVars,
                   resolveVars, qaVars, buildVars, pipelineVars, rebuildVars,
                   recordVars>>

\* lines 233-236: json.dump(final_graph, f)
IngestSave ==
    /\ ingest_pc = "save"
    /\ out_file' = final_graph
    /\ ingest_pc' = "write"
    /\ UNCHANGED <<idx, main_all_graphs, chunk_log, logged>>
    /\ UNCHANGED ingestFrame

\* line 238 and lines 204-206: write_graph_to_neo4j(final_graph)
IngestWrite ==
    /\ ingest_pc = "write"
    /\ graph_json' = final_graph
    /\ written' = written + RecordCount(<<final_graph>>)
    /\ write_i' = 0
    /\ write_pc' = "writing"
    /\ ingest_pc' = "writing"
    /\ UNCHANGED <<store, insert_pc>>
    /\ UNCHANGED ingestVarsButPc
    /\ UNCHANGED <<splitVars, mergeVars, extractVars, rgraphVars, ldictVars,
                   resolveVars, qaVars, buildVars, pipelineVars, rebuildVars,
                   recordVars>>

\* lines 240-241: driver.close()
IngestDone ==
    /\ ingest_pc = "writing"
    /\ write_pc = "ready"
    /\ ingest_pc' = "done"
    /\ UNCHANGED ingestVarsButPc
    /\ UNCHANGED ingestFrame

IngestNext ==
    \/ SplitStart \/ SplitPara \/ SplitReturn
    \/ IngestCall \/ ExtractPass \/ ExtractCallRaises \/ ExtractReturn
    \/ IngestCollect \/ IngestSkip
    \/ IngestMerge \/ IngestSave \/ IngestWrite
    \/ WriteNode \/ WriteRelationship \/ WriteReturn \/ IngestDone

(***************************************************************************)
(* run_pipeline (main.py): extract_graph_elements, save_graph_json,        *)
(* build_all_graphs, visualize_all_graphs, create_graph_summary on a new   *)
(* builder.                                                                *)
(***************************************************************************)
\* What the collaborator may answer to the one extraction call: a document
\* with the "R" and "L" halves, bare or fenced, prose, or nothing.
PipelineResponses ==
    UNION { { <<Document(d)>>,
              <<FenceJson, Newline, Document(d), Newline, Fence>>,
              <<Prose, Newline, Document(d)>> } : d \in AssembleData }
    \cup { <<Prose>>, <<>> }

\* extract_graph_elements.py lines 84-87: json.JSONDecodeError is printed
\* and raised again.
AfterParseError_Swallowed == "save"

AfterParseError == "raised"

\* The file save_graph_json writes.
SavedJson(data) == [saved |-> data]

\* main.py line 36 and extract_graph_elements.py lines 69-87; lines 76-80
\* strip the answer and its fence as neo4j_book2graph.py lines 129-134 do.
PipelineExtract ==
    /\ pipeline_pc = "extract"
    /\ steps' = Append(steps, "extract")
    /\ \E content \in PipelineResponses :
          /\ pipeline_content' = content
          /\ IF Parses(ResultText(content))
             THEN /\ graph_data' = JsonLoads(ResultText(content))
                  /\ pipeline_pc' = "save"
             ELSE /\ graph_data' = graph_data
                  /\ pipeline_pc' = AfterParseError
    /\ UNCHANGED <<R_graph_nx, r_returned, rgraph_pc, graph_file>>
    /\ UNCHANGED <<splitVars, mergeVars, extractVars, storeVars, ldictVars,
                   resolveVars, qaVars, buildVars, ingestVars, rebuildVars,
                   recordVars>>

\* extract_graph_elements.py lines 69-73: the collaborator call raises.
PipelineCallRaises ==
    /\ pipeline_pc = "extract"
    /\ steps' = Append(steps, "extract")
    /\ pipeline_pc' = "raised"
    /\ UNCHANGED <<pipeline_content, graph_file>>
    /\ UNCHANGED pipelineFrame

\* main.py line 40 and memory_graph_builder.py lines 33-37: save_graph_json
PipelineSave ==
    /\ pipeline_pc = "save"
    /\ steps' = Append(steps, "save")
    /\ graph_file' = SavedJson(graph_data)
    /\ pipeline_pc' = "build"
    /\ UNCHANGED pipeline_content
    /\ UNCHANGED pipelineFrame

\* main.py line 44 and build_graphs.py lines 64-72: build_all_graphs calls
\* build_r_graph, then build_l_dict.
PipelineBuild ==
    /\ pipeline_pc = "build"
    /\ steps' = Append(steps, "build")
    /\ rgraph_pc' = "call"
    /\ ldict_pc' = "call"
    /\ pipeline_pc' = "building"
    /\ UNCHANGED <<pipeline_content, graph_file>>
    /\ UNCHANGED <<graph_data, R_graph_nx, r_returned, L_dict, l_returned>>
    /\ UNCHANGED <<splitVars, mergeVars, extractVars, storeVars,
                   resolveVars, qaVars, buildVars, ingestVars, rebuildVars,
                   recordVars>>

\* An exception of build_l_dict leaves run_pipeline.
PipelineBuildRaised ==
    /\ pipeline_pc = "building"
    /\ ldict_pc = "raised"
    /\ pipeline_pc' = "raised"
    /\ UNCHANGED <<pipeline_content, graph_file, steps>>
    /\ UNCHANGED pipelineFrame

\* main.py line 48: visualize_all_graphs(builder)
PipelineVisualize ==
    /\ pipeline_pc = "building"
    /\ ldict_pc = "done"
    /\ steps' = Append(steps, "visualize")
    /\ pipeline_pc' = "summary"
    /\ UNCHANGED <<pipeline_content, graph_file>>
    /\ UNCHANGED pipelineFrame

\* main.py lines 52-58: create_graph_summary(builder); the builder is returned.
PipelineSummary ==
    /\ pipeline_pc = "summary"
    /\ steps' = Append(steps, "summary")
    /\ pipeline_pc' = "done"
    /\ UNCHANGED <<pipeline_content, graph_file>>
    /\ UNCHANGED pipelineFrame

PipelineNext ==
    \/ PipelineExtract \/ PipelineCallRaises \/ PipelineSave \/ PipelineBuild
    \/ BuildRGraph \/ BuildLDict
    \/ PipelineBuildRaised \/ PipelineVisualize \/ PipelineSummary

(***************************************************************************)
(* One builder, built again after its graph_data was assigned again.       *)
(***************************************************************************)
MaxBuilds == 2

\* The documents assigned to builder.graph_data.
RebuildData ==
    { None, [x \in {} |-> <<>>] }
    \cup { [R |-> r] : r \in AssembleR }
    \cup { [L |-> l] : l \in SeqsUpTo(LEntries, 1) }
    \cup { [R |-> r, L |-> l] : r \in AssembleR, l \in SeqsUpTo(LEntries, 1) }

\* extract_graph_elements.py line 82 (build_graphs.py line 80 in the
\* example): builder.graph_data is assigned, then build_all_graphs is
\* called (build_graphs.py lines 64-72).
Reassign ==
    /\ rgraph_pc = "done"
    /\ ldict_pc \in {"done", "raised"}
    /\ builds < MaxBuilds
    /\ builds' = builds + 1
    /\ graph_data' \in RebuildData
    /\ rgraph_pc' = "call"
    /\ ldict_pc' = "call"
    /\ UNCHANGED <<R_graph_nx, r_returned, L_dict, l_returned>>
    /\ UNCHANGED <<splitVars, mergeVars, extractVars, storeVars, resolveVars,
                   qaVars, buildVars, ingestVars, pipelineVars, recordVars>>

RebuildNext == BuildRGraph \/ BuildLDict \/ Reassign

(***************************************************************************)
(* save_to_json(data, path) step by step: the file is read, opened for     *)
(* writing, which empties it, and written; the process may be stopped      *)
(* while the file is open.                                                 *)
(***************************************************************************)
MaxSaves == 3

\* A file whose JSON text was cut short.
PartialFile == [file |-> "partial", data |-> <<>>]

\* The records of the questions answered.
SaveRecords ==
    { [question |-> q, cypher_query |-> <<Statement>>,
       graph_trace |-> <<>>, answer |-> <<"yes">>] : q \in Questions }

\* neo4j_gpt_qa.py line 247-253: handle_question calls save_to_json(record, path)
RecordCall ==
    /\ save_pc = "idle"
    /\ saves < MaxSaves
    /\ saves' = saves + 1
    /\ save_data' \in SaveRecords
    /\ save_all_data' = <<>>
    /\ save_pc' = "read"
    /\ UNCHANGED <<log_file, log_start, answered>>
    /\ UNCHANGED <<question, asked, qa_pc, matched_node, translation, cypher_query,
                   cypher_result, answer, qa_calls, qa_error, qa_trace>>
    /\ UNCHANGED recordFrameButQA

\* lines 218-225: an absent or empty file gives [], json.load raises on a
\* text cut short.
RecordRead ==
    /\ save_pc = "read"
    /\ IF log_file.file = "partial"
       THEN /\ save_pc' = "raised"
            /\ save_all_data' = save_all_data
       ELSE /\ save_pc' = "append"
            /\ save_all_data' = IF log_file.file = "array" THEN log_file.data ELSE <<>>
    /\ UNCHANGED <<save_data, saves>>
    /\ UNCHANGED recordFrame

\* lines 227-229: all_data.append(data); open(path, "w") empties the file.
RecordOpen ==
    /\ save_pc = "append"
    /\ save_all_data' = Append(save_all_data, save_data)
    /\ log_file' = EmptyFile
    /\ save_pc' = "dump"
    /\ UNCHANGED <<save_data, saves>>
    /\ UNCHANGED <<log_start, answered>>
    /\ UNCHANGED <<question, asked, qa_pc, matched_node, translation, cypher_query,
                   cypher_result, answer, qa_calls, qa_error, qa_trace>>
    /\ UNCHANGED recordFrameButQA

\* line 230: json.dump writes the text piece by piece.
RecordDumpPart ==
    /\ save_pc = "dump"
    /\ log_file = EmptyFile
    /\ log_file' = PartialFile
    /\ UNCHANGED <<save_data, save_all_data, saves, save_pc>>
    /\ UNCHANGED <<log_start, answered>>
    /\ UNCHANGED <<question, asked, qa_pc, matched_node, translation, cypher_query,
                   cypher_result, answer, qa_calls, qa_error, qa_trace>>
    /\ UNCHANGED recordFrameButQA

\* line 230: the text is complete and the file closed; the question is
\* answered.
RecordDumpEnd ==
    /\ save_pc = "dump"
    /\ log_file' = ArrayFile(save_all_data)
    /\ answered' = Append(answered, save_data)
    /\ save_pc' = "idle"
    /\ UNCHANGED <<save_data, save_all_data, saves>>
    /\ UNCHANGED log_start
    /\ UNCHANGED <<question, asked, qa_pc, matched_node, translation, cypher_query,
                   cypher_result, answer, qa_calls, qa_error, qa_trace>>
    /\ UNCHANGED recordFrameButQA

\* The process is stopped while the file is open for writing; the file
\* keeps what was written so far.
RecordInterrupt ==
    /\ save_pc = "dump"
    /\ save_pc' = "idle"
    /\ UNCHANGED <<save_data, save_all_data, saves>>
    /\ UNCHANGED recordFrame

\* The exception of json.load leaves handle_question; the next question
\* may be asked.
RecordRaised ==
    /\ save_pc = "raised"
    /\ save_pc' = "idle"
    /\ UNCHANGED <<save_data, save_all_data, saves>>
    /\ UNCHANGED recordFrame

RecordNext ==
    \/ RecordCall \/ RecordRead \/ RecordOpen \/ RecordDumpPart
    \/ RecordDumpEnd \/ RecordInterrupt \/ RecordRaised

(***************************************************************************)
InitSplit ==
    /\ text \in SeqsUpTo(Alphabet, MaxTextLen)
    /\ max_tokens \in 0..MaxChars
    /\ paragraphs = <<>> /\ chunks = <<>> /\ current_chunk = <<>>
    /\ para_i = 0 /\ split_pc = "call"
    /\ graph_list = <<>> /\ final_graph = EmptyGraph /\ merge_pc = "idle"
    /\ num_repeats = 0 /\ pass_i = 0 /\ responses = <<>> /\ all_graphs = <<>>
    /\ calls = 0 /\ merged_graph = EmptyGraph /\ extract_pc = "idle"
    /\ graph_data = None /\ R_graph_nx = None /\ r_returned = None /\ rgraph_pc = "idle"
    /\ graph_json = EmptyGraph /\ store = EmptyStore /\ write_i = 0 /\ written = 0
    /\ write_pc = "idle" /\ insert_pc = "idle"
    /\ L_dict = None /\ l_returned = None /\ ldict_pc = "idle"
    /\ index = <<>> /\ threshold = DefaultThreshold
    /\ query_emb = ZeroVector /\ best_name = NoName /\ best_score = MinusOne
    /\ scan_i = 0 /\ embed_calls = 0 /\ matched = NoName /\ resolve_pc = "idle"
    /\ question = "" /\ asked = 0 /\ qa_pc = "off" /\ matched_node = NoName
    /\ cypher_query = <<>> /\ cypher_result = <<>> /\ answer = <<>>
    /\ log_file = AbsentFile /\ log_start = AbsentFile /\ answered = <<>>
    /\ qa_calls = NoCalls /\ qa_error = NoStep /\ translation = <<>>
    /\ qa_trace = <<>>
    /\ names = <<>> /\ new_index = <<>> /\ index_file = AbsentFile
    /\ build_calls = 0 /\ build_pc = "idle"
    /\ idx = 0 /\ main_all_graphs = <<>> /\ out_file = None
    /\ chunk_log = <<>> /\ logged = <<>> /\ ingest_pc = "idle"
    /\ pipeline_content = <<>> /\ graph_file = None /\ steps = <<>>
    /\ pipeline_pc = "idle"
    /\ builds = 0
    /\ save_data = None /\ save_all_data = <<>> /\ saves = 0 /\ save_pc = "idle"

InitMerge ==
    /\ graph_list = <<>> /\ final_graph = EmptyGraph /\ merge_pc = "collect"
    /\ text = <<>> /\ max_tokens = 0
    /\ paragraphs = <<>> /\ chunks = <<>> /\ current_chunk = <<>>
    /\ para_i = 0 /\ split_pc = "idle"
    /\ num_repeats = 0 /\ pass_i = 0 /\ responses = <<>> /\ all_graphs = <<>>
    /\ calls = 0 /\ merged_graph = EmptyGraph /\ extract_pc = "idle"
    /\ graph_data = None /\ R_graph_nx = None /\ r_returned = None /\ rgraph_pc = "idle"
    /\ graph_json = EmptyGraph /\ store = EmptyStore /\ write_i = 0 /\ written = 0
    /\ write_pc = "idle" /\ insert_pc = "idle"
    /\ L_dict = None /\ l_returned = None /\ ldict_pc = "idle"
    /\ index = <<>> /\ threshold = DefaultThreshold
    /\ query_emb = ZeroVector /\ best_name = NoName /\ best_score = MinusOne
    /\ scan_i = 0 /\ embed_calls = 0 /\ matched = NoName /\ resolve_pc = "idle"
    /\ question = "" /\ asked = 0 /\ qa_pc = "off" /\ matched_node = NoName
    /\ cypher_query = <<>> /\ cypher_result = <<>> /\ answer = <<>>
    /\ log_file = AbsentFile /\ log_start = AbsentFile /\ answered = <<>>
    /\ qa_calls = NoCalls /\ qa_error = NoStep /\ translation = <<>>
    /\ qa_trace = <<>>
    /\ names = <<>> /\ new_index = <<>> /\ index_file = AbsentFile
    /\ build_calls = 0 /\ build_pc = "idle"
    /\ idx = 0 /\ main_all_graphs = <<>> /\ out_file = None
    /\ chunk_log = <<>> /\ logged = <<>> /\ ingest_pc = "idle"
    /\ pipeline_content = <<>> /\ graph_file = None /\ steps = <<>>
    /\ pipeline_pc = "idle"
    /\ builds = 0
    /\ save_data = None /\ save_all_data = <<>> /\ saves = 0 /\ save_pc = "idle"

InitExtract ==
    /\ num_repeats \in 0..MaxRepeats
    /\ pass_i = 0 /\ responses = <<>> /\ all_graphs = <<>>
    /\ calls = 0 /\ merged_graph = EmptyGraph /\ extract_pc = "loop"
    /\ text = <<>> /\ max_tokens = 0
    /\ paragraphs = <<>> /\ chunks = <<>> /\ current_chunk = <<>>
    /\ para_i = 0 /\ split_pc = "idle"
    /\ graph_list = <<>> /\ final_graph = EmptyGraph /\ merge_pc = "idle"
    /\ graph_data = None /\ R_graph_nx = None /\ r_returned = None /\ rgraph_pc = "idle"
    /\ graph_json = EmptyGraph /\ store = EmptyStore /\ write_i = 0 /\ written = 0
    /\ write_pc = "idle" /\ insert_pc = "idle"
    /\ L_dict = None /\ l_returned = None /\ ldict_pc = "idle"
    /\ index = <<>> /\ threshold = DefaultThreshold
    /\ query_emb = ZeroVector /\ best_name = NoName /\ best_score = MinusOne
    /\ scan_i = 0 /\ embed_calls = 0 /\ matched = NoName /\ resolve_pc = "idle"
    /\ question = "" /\ asked = 0 /\ qa_pc = "off" /\ matched_node = NoName
    /\ cypher_query = <<>> /\ cypher_result = <<>> /\ answer = <<>>
    /\ log_file = AbsentFile /\ log_start = AbsentFile /\ answered = <<>>
    /\ qa_calls = NoCalls /\ qa_error = NoStep /\ translation = <<>>
    /\ qa_trace = <<>>
    /\ names = <<>> /\ new_index = <<>> /\ index_file = AbsentFile
    /\ build_calls = 0 /\ build_pc = "idle"
    /\ idx = 0 /\ main_all_graphs = <<>> /\ out_file = None
    /\ chunk_log = <<>> /\ logged = <<>> /\ ingest_pc = "idle"
    /\ pipeline_content = <<>> /\ graph_file = None /\ steps = <<>>
    /\ pipeline_pc = "idle"
    /\ builds = 0
    /\ save_data = None /\ save_all_data = <<>> /\ saves = 0 /\ save_pc = "idle"

InitRGraph ==
    /\ graph_data \in GraphData
    /\ R_graph_nx = None /\ r_returned = None /\ rgraph_pc = "call"
    /\ text = <<>> /\ max_tokens = 0
    /\ paragraphs = <<>> /\ chunks = <<>> /\ current_chunk = <<>>
    /\ para_i = 0 /\ split_pc = "idle"
    /\ graph_list = <<>> /\ final_graph = EmptyGraph /\ merge_pc = "idle"
    /\ num_repeats = 0 /\ pass_i = 0 /\ responses = <<>> /\ all_graphs = <<>>
    /\ calls = 0 /\ merged_graph = EmptyGraph /\ extract_pc = "idle"
    /\ graph_json = EmptyGraph /\ store = EmptyStore /\ write_i = 0 /\ written = 0
    /\ write_pc = "idle" /\ insert_pc = "idle"
    /\ L_dict = None /\ l_returned = None /\ ldict_pc = "idle"
    /\ index = <<>> /\ threshold = DefaultThreshold
    /\ query_emb = ZeroVector /\ best_name = NoName /\ best_score = MinusOne
    /\ scan_i = 0 /\ embed_calls = 0 /\ matched = NoName /\ resolve_pc = "idle"
    /\ question = "" /\ asked = 0 /\ qa_pc = "off" /\ matched_node = NoName
    /\ cypher_query = <<>> /\ cypher_result = <<>> /\ answer = <<>>
    /\ log_file = AbsentFile /\ log_start = AbsentFile /\ answered = <<>>
    /\ qa_calls = NoCalls /\ qa_error = NoStep /\ translation = <<>>
    /\ qa_trace = <<>>
    /\ names = <<>> /\ new_index = <<>> /\ index_file = AbsentFile
    /\ build_calls = 0 /\ build_pc = "idle"
    /\ idx = 0 /\ main_all_graphs = <<>> /\ out_file = None
    /\ chunk_log = <<>> /\ logged = <<>> /\ ingest_pc = "idle"
    /\ pipeline_content = <<>> /\ graph_file = None /\ steps = <<>>
    /\ pipeline_pc = "idle"
    /\ builds = 0
    /\ save_data = None /\ save_all_data = <<>> /\ saves = 0 /\ save_pc = "idle"

InitStore ==
    /\ \/ /\ graph_data \in GraphData
          /\ rgraph_pc = "call" /\ insert_pc = "call" /\ write_pc = "idle"
       \/ /\ graph_data = None
          /\ rgraph_pc = "idle" /\ insert_pc = "idle" /\ write_pc = "ready"
    /\ R_graph_nx = None /\ r_returned = None
    /\ graph_json = EmptyGraph /\ store = EmptyStore /\ write_i = 0 /\ written = 0
    /\ text = <<>> /\ max_tokens = 0
    /\ paragraphs = <<>> /\ chunks = <<>> /\ current_chunk = <<>>
    /\ para_i = 0 /\ split_pc = "idle"
    /\ graph_list = <<>> /\ final_graph = EmptyGraph /\ merge_pc = "idle"
    /\ num_repeats = 0 /\ pass_i = 0 /\ responses = <<>> /\ all_graphs = <<>>
    /\ calls = 0 /\ merged_graph = EmptyGraph /\ extract_pc = "idle"
    /\ L_dict = None /\ l_returned = None /\ ldict_pc = "idle"
    /\ index = <<>> /\ threshold = DefaultThreshold
    /\ query_emb = ZeroVector /\ best_name = NoName /\ best_score = MinusOne
    /\ scan_i = 0 /\ embed_calls = 0 /\ matched = NoName /\ resolve_pc = "idle"
    /\ question = "" /\ asked = 0 /\ qa_pc = "off" /\ matched_node = NoName
    /\ cypher_query = <<>> /\ cypher_result = <<>> /\ answer = <<>>
    /\ log_file = AbsentFile /\ log_start = AbsentFile /\ answered = <<>>
    /\ qa_calls = NoCalls /\ qa_error = NoStep /\ translation = <<>>
    /\ qa_trace = <<>>
    /\ names = <<>> /\ new_index = <<>> /\ index_file = AbsentFile
    /\ build_calls = 0 /\ build_pc = "idle"
    /\ idx = 0 /\ main_all_graphs = <<>> /\ out_file = None
    /\ chunk_log = <<>> /\ logged = <<>> /\ ingest_pc = "idle"
    /\ pipeline_content = <<>> /\ graph_file = None /\ steps = <<>>
    /\ pipeline_pc = "idle"
    /\ builds = 0
    /\ save_data = None /\ save_all_data = <<>> /\ saves = 0 /\ save_pc = "idle"

InitAssemble ==
    /\ graph_data \in AssembleData
    /\ R_graph_nx = None /\ r_returned = None /\ rgraph_pc = "call"
    /\ L_dict = None /\ l_returned = None /\ ldict_pc = "call"
    /\ text = <<>> /\ max_tokens = 0
    /\ paragraphs = <<>> /\ chunks = <<>> /\ current_chunk = <<>>
    /\ para_i = 0 /\ split_pc = "idle"
    /\ graph_list = <<>> /\ final_graph = EmptyGraph /\ merge_pc = "idle"
    /\ num_repeats = 0 /\ pass_i = 0 /\ responses = <<>> /\ all_graphs = <<>>
    /\ calls = 0 /\ merged_graph = EmptyGraph /\ extract_pc = "idle"
    /\ graph_json = EmptyGraph /\ store = EmptyStore /\ write_i = 0 /\ written = 0
    /\ write_pc = "idle" /\ insert_pc = "idle"
    /\ index = <<>> /\ threshold = DefaultThreshold
    /\ query_emb = ZeroVector /\ best_name = NoName /\ best_score = MinusOne
    /\ scan_i = 0 /\ embed_calls = 0 /\ matched = NoName /\ resolve_pc = "idle"
    /\ question = "" /\ asked = 0 /\ qa_pc = "off" /\ matched_node = NoName
    /\ cypher_query = <<>> /\ cypher_result = <<>> /\ answer = <<>>
    /\ log_file = AbsentFile /\ log_start = AbsentFile /\ answered = <<>>
    /\ qa_calls = NoCalls /\ qa_error = NoStep /\ translation = <<>>
    /\ qa_trace = <<>>
    /\ names = <<>> /\ new_index = <<>> /\ index_file = AbsentFile
    /\ build_calls = 0 /\ build_pc = "idle"
    /\ idx = 0 /\ main_all_graphs = <<>> /\ out_file = None
    /\ chunk_log = <<>> /\ logged = <<>> /\ ingest_pc = "idle"
    /\ pipeline_content = <<>> /\ graph_file = None /\ steps = <<>>
    /\ pipeline_pc = "idle"
    /\ builds = 0
    /\ save_data = None /\ save_all_data = <<>> /\ saves = 0 /\ save_pc = "idle"

InitResolve ==
    /\ graph_data = None
    /\ R_graph_nx = None /\ r_returned = None /\ rgraph_pc = "idle"
    /\ L_dict = None /\ l_returned = None /\ ldict_pc = "idle"
    /\ text = <<>> /\ max_tokens = 0
    /\ paragraphs = <<>> /\ chunks = <<>> /\ current_chunk = <<>>
    /\ para_i = 0 /\ split_pc = "idle"
    /\ graph_list = <<>> /\ final_graph = EmptyGraph /\ merge_pc = "idle"
    /\ num_repeats = 0 /\ pass_i = 0 /\ responses = <<>> /\ all_graphs = <<>>
    /\ calls = 0 /\ merged_graph = EmptyGraph /\ extract_pc = "idle"
    /\ graph_json = EmptyGraph /\ store = EmptyStore /\ write_i = 0 /\ written = 0
    /\ write_pc = "idle" /\ insert_pc = "idle"
    /\ index \in Indexes /\ threshold \in Thresholds
    /\ query_emb = ZeroVector /\ best_name = NoName /\ best_score = MinusOne
    /\ scan_i = 0 /\ embed_calls = 0 /\ matched = NoName /\ resolve_pc = "embed"
    /\ question = "" /\ asked = 0 /\ qa_pc = "off" /\ matched_node = NoName
    /\ cypher_query = <<>> /\ cypher_result = <<>> /\ answer = <<>>
    /\ log_file = AbsentFile /\ log_start = AbsentFile /\ answered = <<>>
    /\ qa_calls = NoCalls /\ qa_error = NoStep /\ translation = <<>>
    /\ qa_trace = <<>>
    /\ names = <<>> /\ new_index = <<>> /\ index_file = AbsentFile
    /\ build_calls = 0 /\ build_pc = "idle"
    /\ idx = 0 /\ main_all_graphs = <<>> /\ out_file = None
    /\ chunk_log = <<>> /\ logged = <<>> /\ ingest_pc = "idle"
    /\ pipeline_content = <<>> /\ graph_file = None /\ steps = <<>>
    /\ pipeline_pc = "idle"
    /\ builds = 0
    /\ save_data = None /\ save_all_data = <<>> /\ saves = 0 /\ save_pc = "idle"

InitBuild ==
    /\ graph_data = None
    /\ R_graph_nx = None /\ r_returned = None /\ rgraph_pc = "idle"
    /\ L_dict = None /\ l_returned = None /\ ldict_pc = "idle"
    /\ text = <<>> /\ max_tokens = 0
    /\ paragraphs = <<>> /\ chunks = <<>> /\ current_chunk = <<>>
    /\ para_i = 0 /\ split_pc = "idle"
    /\ graph_list = <<>> /\ final_graph = EmptyGraph /\ merge_pc = "idle"
    /\ num_repeats = 0 /\ pass_i = 0 /\ responses = <<>> /\ all_graphs = <<>>
    /\ calls = 0 /\ merged_graph = EmptyGraph /\ extract_pc = "idle"
    /\ store \in {[nodes |-> ns, edges |-> <<>>] : ns \in SeqsUpTo(IndexedNodes, MaxNodes)}
    /\ graph_json = EmptyGraph /\ write_i = 0 /\ written = 0
    /\ write_pc = "idle" /\ insert_pc = "idle"
    /\ index = <<>> /\ threshold = DefaultThreshold
    /\ query_emb = ZeroVector /\ best_name = NoName /\ best_score = MinusOne
    /\ scan_i = 0 /\ embed_calls = 0 /\ matched = NoName /\ resolve_pc = "idle"
    /\ question = "" /\ asked = 0 /\ qa_pc = "off" /\ matched_node = NoName
    /\ cypher_query = <<>> /\ cypher_result = <<>> /\ answer = <<>>
    /\ log_file = AbsentFile /\ log_start = AbsentFile /\ answered = <<>>
    /\ qa_calls = NoCalls /\ qa_error = NoStep /\ translation = <<>>
    /\ qa_trace = <<>>
    /\ names = <<>> /\ new_index = <<>> /\ index_file = AbsentFile
    /\ build_calls = 0 /\ build_pc = "extract"
    /\ idx = 0 /\ main_all_graphs = <<>> /\ out_file = None
    /\ chunk_log = <<>> /\ logged = <<>> /\ ingest_pc = "idle"
    /\ pipeline_content = <<>> /\ graph_file = None /\ steps = <<>>
    /\ pipeline_pc = "idle"
    /\ builds = 0
    /\ save_data = None /\ save_all_data = <<>> /\ saves = 0 /\ save_pc = "idle"

InitQA ==
    /\ graph_data = None
    /\ R_graph_nx = None /\ r_returned = None /\ rgraph_pc = "idle"
    /\ L_dict = None /\ l_returned = None /\ ldict_pc = "idle"
    /\ text = <<>> /\ max_tokens = 0
    /\ paragraphs = <<>> /\ chunks = <<>> /\ current_chunk = <<>>
    /\ para_i = 0 /\ split_pc = "idle"
    /\ graph_list = <<>> /\ final_graph = EmptyGraph /\ merge_pc = "idle"
    /\ num_repeats = 0 /\ pass_i = 0 /\ responses = <<>> /\ all_graphs = <<>>
    /\ calls = 0 /\ merged_graph = EmptyGraph /\ extract_pc = "idle"
    /\ graph_json = EmptyGraph /\ store = EmptyStore /\ write_i = 0 /\ written = 0
    /\ write_pc = "idle" /\ insert_pc = "idle"
    /\ index \in QAIndexes /\ threshold = DefaultThreshold
    /\ query_emb = ZeroVector /\ best_name = NoName /\ best_score = MinusOne
    /\ scan_i = 0 /\ embed_calls = 0 /\ matched = NoName /\ resolve_pc = "idle"
    /\ question = "" /\ asked = 0 /\ qa_pc = "idle" /\ matched_node = NoName
    /\ cypher_query = <<>> /\ cypher_result = <<>> /\ answer = <<>>
    /\ log_file \in LogFiles /\ log_start = log_file /\ answered = <<>>
    /\ qa_calls = NoCalls /\ qa_error = NoStep /\ translation = <<>>
    /\ qa_trace = <<>>
    /\ names = <<>> /\ new_index = <<>> /\ index_file = AbsentFile
    /\ build_calls = 0 /\ build_pc = "idle"
    /\ idx = 0 /\ main_all_graphs = <<>> /\ out_file = None
    /\ chunk_log = <<>> /\ logged = <<>> /\ ingest_pc = "idle"
    /\ pipeline_content = <<>> /\ graph_file = None /\ steps = <<>>
    /\ pipeline_pc = "idle"
    /\ builds = 0
    /\ save_data = None /\ save_all_data = <<>> /\ saves = 0 /\ save_pc = "idle"

InitIngest ==
    /\ graph_data = None
    /\ R_graph_nx = None /\ r_returned = None /\ rgraph_pc = "idle"
    /\ L_dict = None /\ l_returned = None /\ ldict_pc = "idle"
    /\ text \in {BookText(k) : k \in 0..MaxChunks} /\ max_tokens = IngestMaxTokens
    /\ paragraphs = <<>> /\ chunks = <<>> /\ current_chunk = <<>>
    /\ para_i = 0 /\ split_pc = "call"
    /\ graph_list = <<>> /\ final_graph = EmptyGraph /\ merge_pc = "idle"
    /\ num_repeats = 0 /\ pass_i = 0 /\ responses = <<>> /\ all_graphs = <<>>
    /\ calls = 0 /\ merged_graph = EmptyGraph /\ extract_pc = "idle"
    /\ graph_json = EmptyGraph /\ store = EmptyStore /\ write_i = 0 /\ written = 0
    /\ write_pc = "idle" /\ insert_pc = "idle"
    /\ index = <<>> /\ threshold = DefaultThreshold
    /\ query_emb = ZeroVector /\ best_name = NoName /\ best_score = MinusOne
    /\ scan_i = 0 /\ embed_calls = 0 /\ matched = NoName /\ resolve_pc = "idle"
    /\ question = "" /\ asked = 0 /\ qa_pc = "off" /\ matched_node = NoName
    /\ cypher_query = <<>> /\ cypher_result = <<>> /\ answer = <<>>
    /\ log_file = AbsentFile /\ log_start = AbsentFile /\ answered = <<>>
    /\ qa_calls = NoCalls /\ qa_error = NoStep /\ translation = <<>>
    /\ qa_trace = <<>>
    /\ names = <<>> /\ new_index = <<>> /\ index_file = AbsentFile
    /\ build_calls = 0 /\ build_pc = "idle"
    /\ idx = 0 /\ main_all_graphs = <<>> /\ out_file = None
    /\ chunk_log = <<>> /\ logged = <<>> /\ ingest_pc = "loop"
    /\ pipeline_content = <<>> /\ graph_file = None /\ steps = <<>>
    /\ pipeline_pc = "idle"
    /\ builds = 0
    /\ save_data = None /\ save_all_data = <<>> /\ saves = 0 /\ save_pc = "idle"

InitPipeline ==
    /\ graph_data = None
    /\ R_graph_nx = None /\ r_returned = None /\ rgraph_pc = "idle"
    /\ L_dict = None /\ l_returned = None /\ ldict_pc = "idle"
    /\ text = <<>> /\ max_tokens = 0
    /\ paragraphs = <<>> /\ chunks = <<>> /\ current_chunk = <<>>
    /\ para_i = 0 /\ split_pc = "idle"
    /\ graph_list = <<>> /\ final_graph = EmptyGraph /\ merge_pc = "idle"
    /\ num_repeats = 0 /\ pass_i = 0 /\ responses = <<>> /\ all_graphs = <<>>
    /\ calls = 0 /\ merged_graph = EmptyGraph /\ extract_pc = "idle"
    /\ graph_json = EmptyGraph /\ store = EmptyStore /\ write_i = 0 /\ written = 0
    /\ write_pc = "idle" /\ insert_pc = "idle"
    /\ index = <<>> /\ threshold = DefaultThreshold
    /\ query_emb = ZeroVector /\ best_name = NoName /\ best_score = MinusOne
    /\ scan_i = 0 /\ embed_calls = 0 /\ matched = NoName /\ resolve_pc = "idle"
    /\ question = "" /\ asked = 0 /\ qa_pc = "off" /\ matched_node = NoName
    /\ cypher_query = <<>> /\ cypher_result = <<>> /\ answer = <<>>
    /\ log_file = AbsentFile /\ log_start = AbsentFile /\ answered = <<>>
    /\ qa_calls = NoCalls /\ qa_error = NoStep /\ translation = <<>>
    /\ qa_trace = <<>>
    /\ names = <<>> /\ new_index = <<>> /\ index_file = AbsentFile
    /\ build_calls = 0 /\ build_pc = "idle"
    /\ idx = 0 /\ main_all_graphs = <<>> /\ out_file = None
    /\ chunk_log = <<>> /\ logged = <<>> /\ ingest_pc = "idle"
    /\ pipeline_content = <<>> /\ graph_file = None /\ steps = <<>>
    /\ pipeline_pc = "extract"
    /\ builds = 0
    /\ save_data = None /\ save_all_data = <<>> /\ saves = 0 /\ save_pc = "idle"

InitRebuild ==
    /\ graph_data \in RebuildData
    /\ R_graph_nx = None /\ r_returned = None /\ rgraph_pc = "call"
    /\ L_dict = None /\ l_returned = None /\ ldict_pc = "call"
    /\ text = <<>> /\ max_tokens = 0
    /\ paragraphs = <<>> /\ chunks = <<>> /\ current_chunk = <<>>
    /\ para_i = 0 /\ split_pc = "idle"
    /\ graph_list = <<>> /\ final_graph = EmptyGraph /\ merge_pc = "idle"
    /\ num_repeats = 0 /\ pass_i = 0 /\ responses = <<>> /\ all_graphs = <<>>
    /\ calls = 0 /\ merged_graph = EmptyGraph /\ extract_pc = "idle"
    /\ graph_json = EmptyGraph /\ store = EmptyStore /\ write_i = 0 /\ written = 0
    /\ write_pc = "idle" /\ insert_pc = "idle"
    /\ index = <<>> /\ threshold = DefaultThreshold
    /\ query_emb = ZeroVector /\ best_name = NoName /\ best_score = MinusOne
    /\ scan_i = 0 /\ embed_calls = 0 /\ matched = NoName /\ resolve_pc = "idle"
    /\ question = "" /\ asked = 0 /\ qa_pc = "off" /\ matched_node = NoName
    /\ cypher_query = <<>> /\ cypher_result = <<>> /\ answer = <<>>
    /\ log_file = AbsentFile /\ log_start = AbsentFile /\ answered = <<>>
    /\ qa_calls = NoCalls /\ qa_error = NoStep /\ translation = <<>>
    /\ qa_trace = <<>>
    /\ names = <<>> /\ new_index = <<>> /\ index_file = AbsentFile
    /\ build_calls = 0 /\ build_pc = "idle"
    /\ idx = 0 /\ main_all_graphs = <<>> /\ out_file = None
    /\ chunk_log = <<>> /\ logged = <<>> /\ ingest_pc = "idle"
    /\ pipeline_content = <<>> /\ graph_file = None /\ steps = <<>>
    /\ pipeline_pc = "idle"
    /\ builds = 1
    /\ save_data = None /\ save_all_data = <<>> /\ saves = 0 /\ save_pc = "idle"

InitRecord ==
    /\ graph_data = None
    /\ R_graph_nx = None /\ r_returned = None /\ rgraph_pc = "idle"
    /\ L_dict = None /\ l_returned = None /\ ldict_pc = "idle"
    /\ text = <<>> /\ max_tokens = 0
    /\ paragraphs = <<>> /\ chunks = <<>> /\ current_chunk = <<>>
    /\ para_i = 0 /\ split_pc = "idle"
    /\ graph_list = <<>> /\ final_graph = EmptyGraph /\ merge_pc = "idle"
    /\ num_repeats = 0 /\ pass_i = 0 /\ responses = <<>> /\ all_graphs = <<>>
    /\ calls = 0 /\ merged_graph = EmptyGraph /\ extract_pc = "idle"
    /\ graph_json = EmptyGraph /\ store = EmptyStore /\ write_i = 0 /\ written = 0
    /\ write_pc = "idle" /\ insert_pc = "idle"
    /\ index = <<>> /\ threshold = DefaultThreshold
    /\ query_emb = ZeroVector /\ best_name = NoName /\ best_score = MinusOne
    /\ scan_i = 0 /\ embed_calls = 0 /\ matched = NoName /\ resolve_pc = "idle"
    /\ question = "" /\ asked = 0 /\ qa_pc = "off" /\ matched_node = NoName
    /\ cypher_query = <<>> /\ cypher_result = <<>> /\ answer = <<>>
    /\ log_file \in LogFiles /\ log_start = log_file /\ answered = <<>>
    /\ qa_calls = NoCalls /\ qa_error = NoStep /\ translation = <<>>
    /\ qa_trace = <<>>
    /\ names = <<>> /\ new_index = <<>> /\ index_file = AbsentFile
    /\ build_calls = 0 /\ build_pc = "idle"
    /\ idx = 0 /\ main_all_graphs = <<>> /\ out_file = None
    /\ chunk_log = <<>> /\ logged = <<>> /\ ingest_pc = "idle"
    /\ pipeline_content = <<>> /\ graph_file = None /\ steps = <<>>
    /\ pipeline_pc = "idle"
    /\ builds = 0
    /\ save_data = None /\ save_all_data = <<>> /\ saves = 0 /\ save_pc = "idle"

SpecSplit == InitSplit /\ [][SplitNext]_vars

SpecMerge == InitMerge /\ [][MergeNext]_vars

SpecExtract == InitExtract /\ [][ExtractNext]_vars

SpecRGraph == InitRGraph /\ [][RGraphNext]_vars

SpecStore == InitStore /\ [][StoreNext]_vars

SpecAssemble == InitAssemble /\ [][AssembleNext]_vars

SpecResolve == InitResolve /\ [][ResolveNext]_vars

SpecQA == InitQA /\ [][QANext]_vars

SpecBuild == InitBuild /\ [][BuildNext]_vars

SpecIngest == InitIngest /\ [][IngestNext]_vars

SpecPipeline == InitPipeline /\ [][PipelineNext]_vars

SpecRebuild == InitRebuild /\ [][RebuildNext]_vars

SpecRecord == InitRecord /\ [][RecordNext]_vars

(***************************************************************************)
(* Claims about merge_graph_data.                                          *)
(***************************************************************************)
\* Every node record of the input, in list order, with the graph it is in.
InputNodes ==
    Flatten([g \in DOMAIN graph_list |->
               LET ns == Get(graph_list[g], "nodes", <<>>) IN
               [i \in DOMAIN ns |-> [graph |-> g, node |-> ns[i]]]])

InputRelationships ==
    Flatten([g \in DOMAIN graph_list |-> Get(graph_list[g], "relationships", <<>>)])

\* The last input record carrying the id.
LastRecord(id) ==
    LET at == {i \in DOMAIN InputNodes : InputNodes[i].node.id = id}
        last == CHOOSE i \in at : \A j \in at : j <= i
    IN InputNodes[last]

\* C1: the merged node list holds exactly one record for every id of the input
\* and no other record, and that record is the last input record with the id,
\* in full.
C1_LastSeenWins ==
    merge_pc = "done" =>
        LET ids == {InputNodes[i].node.id : i \in DOMAIN InputNodes}
            out == final_graph.nodes
        IN /\ \A i \in DOMAIN out : out[i].id \in ids
           /\ \A id \in ids :
                 /\ Cardinality({i \in DOMAIN out : out[i].id = id}) = 1
                 /\ \A i \in DOMAIN out :
                       out[i].id = id => out[i] = LastRecord(id).node

\* An id recurs with a different record, within a graph or across graphs.
C1_Witness ==
    /\ merge_pc = "done"
    /\ Len(final_graph.nodes) = 2
    /\ \E i, j \in DOMAIN InputNodes :
          /\ i < j
          /\ InputNodes[i].node.id = InputNodes[j].node.id
          /\ InputNodes[i].node # InputNodes[j].node

\* C2: the merged relationship list is the concatenation of the input lists in
\* list order: nothing dropped, reordered or deduplicated.
C2_RelationshipsConcatenated ==
    merge_pc = "done" =>
        /\ final_graph.relationships = InputRelationships
        /\ \A r \in RelRecords :
              Cardinality({i \in DOMAIN final_graph.relationships :
                              final_graph.relationships[i] = r})
                = Cardinality({i \in DOMAIN InputRelationships :
                                  InputRelationships[i] = r})

\* Two graphs contribute the same relationship, and both copies are kept.
C2_Witness ==
    /\ merge_pc = "done"
    /\ Len(graph_list) = 2
    /\ \E i, j \in DOMAIN final_graph.relationships :
          i < j /\ final_graph.relationships[i] = final_graph.relationships[j]
    /\ \A g \in DOMAIN graph_list :
          Len(Get(graph_list[g], "relationships", <<>>)) >= 1

\* C3 as stated: merging the merged graph again, alone or with itself, returns
\* the merged graph.
C3_Idempotent ==
    merge_pc = "done" =>
        /\ merge_graph_data(<<final_graph>>) = final_graph
        /\ merge_graph_data(<<final_graph, final_graph>>) = final_graph

\* C3: merging the merged graph alone returns it; merging it with itself returns
\* its nodes, and its relationship list twice over.
C3_RemergeDoublesRelationships ==
    merge_pc = "done" =>
        /\ merge_graph_data(<<final_graph>>) = final_graph
        /\ merge_graph_data(<<final_graph, final_graph>>) =
              [nodes |-> final_graph.nodes,
               relationships |->
                   final_graph.relationships \o final_graph.relationships]

\* A merged graph with an overwritten node and a relationship.
C3_Witness ==
    /\ merge_pc = "done"
    /\ Len(final_graph.relationships) >= 1
    /\ \E i, j \in DOMAIN InputNodes :
          /\ InputNodes[i].node.id = InputNodes[j].node.id
          /\ InputNodes[i].node # InputNodes[j].node

\* An id's record in an earlier graph and its last record, in a later graph.
RecurringPairs ==
    {pair \in Range(InputNodes) \X Range(InputNodes) :
        /\ pair[1].node.id = pair[2].node.id
        /\ pair[1].graph < pair[2].graph
        /\ pair[2] = LastRecord(pair[2].node.id)}

MergedRecord(id) ==
    LET out == final_graph.nodes IN
    out[CHOOSE i \in DOMAIN out : out[i].id = id]

\* C4 as stated: the merged record keeps the properties only the earlier record
\* has, takes the later scalar values, and accumulates lists and labels.
C4_AdditiveMerge ==
    merge_pc = "done" =>
        \A pair \in RecurringPairs :
            LET old == pair[1].node
                new == pair[2].node
                m == MergedRecord(new.id)
            IN /\ \A k \in DOMAIN old.properties \ DOMAIN new.properties :
                     k \in DOMAIN m.properties /\ m.properties[k] = old.properties[k]
               /\ \A k \in (DOMAIN old.properties \cap DOMAIN new.properties) \ ListKeys :
                     k \in DOMAIN m.properties /\ m.properties[k] = new.properties[k]
               /\ \A k \in DOMAIN old.properties \cap DOMAIN new.properties \cap ListKeys :
                     /\ k \in DOMAIN m.properties
                     /\ Range(old.properties[k]) \cup Range(new.properties[k])
                          \subseteq Range(m.properties[k])
               /\ Range(old.labels) \cup Range(new.labels) \subseteq Range(m.labels)

\* C4: the merged record is the later record alone: its properties and labels
\* are the later record's, so a property only the earlier record has is gone
\* and lists and labels are replaced, not accumulated.
C4_LaterRecordReplaces ==
    merge_pc = "done" =>
        \A pair \in RecurringPairs :
            LET old == pair[1].node
                new == pair[2].node
                m == MergedRecord(new.id)
            IN /\ DOMAIN m.properties = DOMAIN new.properties
               /\ \A k \in DOMAIN new.properties : m.properties[k] = new.properties[k]
               /\ m.labels = new.labels

\* The earlier pass has a property, a list element and a label the later lacks.
C4_Witness ==
    /\ merge_pc = "done"
    /\ \E pair \in RecurringPairs :
          /\ DOMAIN pair[1].node.properties \ DOMAIN pair[2].node.properties # {}
          /\ pair[1].node.labels # pair[2].node.labels

(***************************************************************************)
(* Claims about extract_graph_from_chunk.                                  *)
(***************************************************************************)
\* The documents of the answers that parse, in pass order.
ParsedPasses ==
    LET ok == SelectSeq(responses, LAMBDA c : Parses(ResultText(c))) IN
    [i \in DOMAIN ok |-> JsonLoads(ResultText(ok[i]))]

\* A fenced answer is a document: the fences are not part of it.
IsFenced(c) == Len(c) = 5 /\ c[1] = FenceJson /\ c[5] = Fence /\ IsDocument(c[3])

\* C5: when the function returns, the collaborator was called num_repeats
\* times and answered each time; the result is merge_graph_data over the
\* documents of the passes that parsed, in pass order (a fenced document
\* parses), and the empty graph when none parsed; a pass that does not parse
\* never ends the loop early.
C5_PassesMerged ==
    /\ extract_pc = "done" =>
          /\ calls = num_repeats
          /\ Len(responses) = num_repeats
          /\ merged_graph = merge_graph_data(ParsedPasses)
          /\ ParsedPasses = <<>> => merged_graph = EmptyGraph
          /\ \A i \in DOMAIN responses :
                IsFenced(responses[i]) =>
                    \E j \in DOMAIN all_graphs : all_graphs[j] = responses[i][3].json
    /\ extract_pc = "loop" => calls = pass_i /\ Len(responses) = pass_i
    /\ Len(ParsedPasses) <= Len(responses)

\* A pass that failed to parse was followed by one that parsed.
C5_Witness ==
    /\ extract_pc = "done"
    /\ num_repeats = 2
    /\ ~Parses(ResultText(responses[1]))
    /\ Parses(ResultText(responses[2]))
    /\ merged_graph # EmptyGraph

(***************************************************************************)
(* Claims about split_text.                                                *)
(***************************************************************************)
IsBlank(s) == Strip(s) = <<>>

LStrip(s) ==
    LET keep == {i \in DOMAIN s : s[i] \notin Whitespace} IN
    IF keep = {} THEN <<>>
    ELSE SubSeq(s, CHOOSE i \in keep : \A j \in keep : i <= j, Len(s))

IsPrefix(p, s) == Len(p) <= Len(s) /\ SubSeq(s, 1, Len(p)) = p

\* The buffer that holds paragraphs g..h, each followed by the separator.
BufferOf(ps, g, h) == Flatten([j \in 1..(h - g + 1) |-> ps[g + j - 1] \o ParaSep])

\* GroupStart(ps, max)[k]: the first paragraph of the buffer paragraph k is in.
GroupStart(ps, max) ==
    LET gs[k \in 1..Len(ps)] ==
            IF k = 1 THEN 1
            ELSE IF Len(BufferOf(ps, gs[k - 1], k - 1)) + Len(ps[k]) >= max
                 THEN k ELSE gs[k - 1]
    IN gs

GroupEnd(ps, max, g) ==
    CHOOSE h \in g..Len(ps) :
        /\ GroupStart(ps, max)[h] = g
        /\ \A k \in g..Len(ps) : GroupStart(ps, max)[k] = g => k <= h

\* The trimmed buffers of the groups, in text order, blank ones left out.
GreedyChunks(ps, max) ==
    LET starts == {g \in 1..Len(ps) : GroupStart(ps, max)[g] = g}
        all == [g \in 1..Len(ps) |->
                   IF g \in starts
                   THEN Strip(BufferOf(ps, g, GroupEnd(ps, max, g)))
                   ELSE <<>>]
    IN SelectSeq(all, LAMBDA c : c # <<>>)

\* C6: the chunks are the trimmed buffers of a greedy walk over the paragraphs:
\* a paragraph starts a new buffer exactly when the buffer's length plus the
\* paragraph's length reaches or exceeds max_chars, otherwise it joins the
\* buffer; the last buffer is emitted after the loop; no chunk is empty and the
\* chunks are in text order.
C6_GreedyChunks ==
    /\ \A i \in DOMAIN chunks : chunks[i] # <<>>
    /\ split_pc = "done" =>
          chunks = GreedyChunks(SplitParagraphs(text), max_tokens)

\* Both branches were taken: a chunk of two paragraphs and a later chunk.
C6_Witness ==
    /\ split_pc = "done"
    /\ Len(chunks) >= 2
    /\ \E i \in DOMAIN chunks : FindSep(chunks[i]) # 0

\* text = w0 c1 w1 c2 ... cn wn with every w whitespace only and every inner w
\* holding a paragraph separator.
RECURSIVE SpacedOut(_, _, _)
SpacedOut(t, cs, first) ==
    LET u == LStrip(t)
        gap == SubSeq(t, 1, Len(t) - Len(u))
    IN IF cs = <<>> THEN u = <<>>
       ELSE /\ IsPrefix(Head(cs), u)
            /\ first \/ FindSep(gap) # 0
            /\ SpacedOut(SubSeq(u, Len(Head(cs)) + 1, Len(u)), Tail(cs), FALSE)

TrimmedNonBlank(ps) ==
    SelectSeq([i \in DOMAIN ps |-> Strip(ps[i])], LAMBDA p : p # <<>>)

\* C7: the chunks, with a paragraph separator between consecutive chunks, are
\* the text with whitespace removed at the chunk boundaries only, and the
\* non-blank paragraphs of the chunks are those of the text, in order.
C7_RoundTrip ==
    split_pc = "done" =>
        /\ SpacedOut(text, chunks, TRUE)
        /\ TrimmedNonBlank(Flatten([i \in DOMAIN chunks |-> SplitParagraphs(chunks[i])]))
             = TrimmedNonBlank(SplitParagraphs(text))

\* Several chunks, and whitespace was dropped between them.
C7_Witness ==
    /\ split_pc = "done"
    /\ Len(chunks) >= 2
    /\ Len(Flatten(chunks)) + 2 * (Len(chunks) - 1) < Len(text)

\* C8: a chunk is shorter than max_chars, or it is one whole paragraph whose own
\* length is at least max_chars; every such non-blank paragraph is a chunk.
C8_ChunkBound ==
    split_pc = "done" =>
        LET ps == SplitParagraphs(text) IN
        /\ \A i \in DOMAIN chunks :
              \/ Len(chunks[i]) < max_tokens
              \/ \E k \in DOMAIN ps :
                    Len(ps[k]) >= max_tokens /\ chunks[i] = Strip(ps[k])
        /\ \A k \in DOMAIN ps :
              Len(ps[k]) >= max_tokens /\ ~IsBlank(ps[k])
                  => \E i \in DOMAIN chunks : chunks[i] = Strip(ps[k])

\* An oversized paragraph stands between two ordinary chunks.
C8_Witness ==
    /\ split_pc = "done"
    /\ max_tokens >= 2
    /\ \E i \in DOMAIN chunks : Len(chunks[i]) >= max_tokens
    /\ \E i \in DOMAIN chunks : Len(chunks[i]) < max_tokens

(***************************************************************************)
(* Claims about build_r_graph.                                             *)
(***************************************************************************)
RBuilt == rgraph_pc = "done" /\ ~Falsy(graph_data) /\ "R" \in DOMAIN graph_data

\* The facts the input lists for the ordered pair, in input order.
FactsBetween(a, b) ==
    LET es == graph_data["R"] IN
    Flatten([i \in DOMAIN es |->
               IF es[i].E1 = a /\ es[i].E2 = b /\ "R" \in DOMAIN es[i]
               THEN es[i]["R"] ELSE <<>>])

EdgesBetween(G, a, b) == SelectSeq(G.edges, LAMBDA e : e.u = a /\ e.v = b)

Field(fact, name) == IF name \in DOMAIN fact THEN fact[name] ELSE ""

\* C9: the R-graph has one edge per fact: between every ordered pair, as many
\* edges as the input lists facts for it, the k-th edge with its own key and
\* with the k-th fact's time, relationship and event, "" for a missing one.
C9_OneEdgePerFact ==
    RBuilt =>
        /\ r_returned = R_graph_nx
        /\ \A a \in Entities, b \in Entities :
              LET es == EdgesBetween(R_graph_nx, a, b)
                  fs == FactsBetween(a, b)
              IN /\ Len(es) = Len(fs)
                 /\ \A k \in DOMAIN es :
                       /\ es[k].key = k - 1
                       /\ DOMAIN es[k].attrs = {"time", "relationship", "event"}
                       /\ \A f \in {"time", "relationship", "event"} :
                             es[k].attrs[f] = Field(fs[k], f)

\* Two identical facts between one pair, from two entries, each lacking a field.
C9_Witness ==
    /\ RBuilt
    /\ Len(graph_data["R"]) = 2
    /\ \E i, j \in DOMAIN R_graph_nx.edges :
          /\ i < j
          /\ R_graph_nx.edges[i].u = R_graph_nx.edges[j].u
          /\ R_graph_nx.edges[i].v = R_graph_nx.edges[j].v
          /\ R_graph_nx.edges[i].attrs = R_graph_nx.edges[j].attrs
          /\ R_graph_nx.edges[i].attrs.time = ""

\* C10: both endpoints of every R entry are nodes tagged as entity nodes,
\* whatever the entry's list of facts, and there is no other node.
C10_EndpointsAreNodes ==
    RBuilt =>
        LET es == graph_data["R"]
            endpoints == {es[i].E1 : i \in DOMAIN es} \cup {es[i].E2 : i \in DOMAIN es}
            G == R_graph_nx
        IN /\ {G.nodes[i][1] : i \in DOMAIN G.nodes} = endpoints
           /\ \A i \in DOMAIN G.nodes : G.nodes[i][2] = [type |-> "entity"]

(***************************************************************************)
(* Claims about the endpoints of edges.                                    *)
(***************************************************************************)
\* The endpoints of every edge of a MultiDiGraph are nodes of it.
GraphEndpointsExist(G) ==
    G = None \/ \A i \in DOMAIN G.edges : HasNode(G, G.edges[i].u) /\ HasNode(G, G.edges[i].v)

\* The endpoints of every relationship of the store are stored nodes.
StoreEndpointsExist(S) ==
    \A i \in DOMAIN S.edges :
       S.edges[i].a \in DOMAIN S.nodes /\ S.edges[i].b \in DOMAIN S.nodes

PairsOf(entries, e) ==
    LET mine == SelectSeq(entries, LAMBDA x : x.Entity = e)
    IN [i \in DOMAIN mine |-> [label |-> mine[i].Label, time |-> mine[i].time]]

\* The entities of an "L" list in the order of their first entries.
RECURSIVE FirstEntities(_, _)
FirstEntities(entries, seen) ==
    IF entries = <<>> THEN <<>>
    ELSE IF Head(entries).Entity \in seen THEN FirstEntities(Tail(entries), seen)
    ELSE <<Head(entries).Entity>>
         \o FirstEntities(Tail(entries), seen \cup {Head(entries).Entity})

RECURSIVE PairCount(_)
PairCount(d) == IF d = <<>> THEN 0 ELSE Len(Head(d)[2]) + PairCount(Tail(d))

\* The dictionary holds, per entity in first-entry order, the entity's
\* entries in input order.
IsLDictOf(d, entries) ==
    /\ [i \in DOMAIN d |-> d[i][1]] = FirstEntities(entries, {})
    /\ \A i \in DOMAIN d : d[i][2] = PairsOf(entries, d[i][1])
    /\ PairCount(d) = Len(entries)

\* An extraction output (a JSON object) whose "L" entries, if any, are whole.
IsDocument_RL ==
    /\ graph_data # None
    /\ HasKey(graph_data, "L") => ~LabelsRaise(graph_data["L"])

\* C12 as stated: on an extraction output without "R" build_r_graph returns
\* an empty graph and does not raise, without "L" build_l_dict returns an
\* empty dictionary and does not raise, and each half, once built, is what
\* its own key alone determines.
C12_MissingKeyTolerated ==
    IsDocument_RL =>
      /\ rgraph_pc # "raised" /\ ldict_pc # "raised"
      /\ (rgraph_pc = "done" /\ ~HasKey(graph_data, "R")) => r_returned = MultiDiGraph
      /\ (rgraph_pc = "done" /\ HasKey(graph_data, "R"))
            => r_returned = AddEntries(MultiDiGraph, graph_data["R"])
      /\ (ldict_pc = "done" /\ ~HasKey(graph_data, "L")) => l_returned = <<>>
      /\ (ldict_pc = "done" /\ HasKey(graph_data, "L"))
            => IsLDictOf(l_returned, graph_data["L"])

\* C13: the dictionary build_l_dict returns, and keeps on the builder, lists
\* for every entity exactly the input L entries naming it, in input order,
\* as {label, time} pairs with exact duplicates kept; its keys are in the
\* order of each entity's first entry and it holds as many pairs as there
\* are entries.
C13_LabelsInInputOrder ==
    (ldict_pc = "done" /\ HasKey(graph_data, "L"))
       => /\ IsLDictOf(l_returned, graph_data["L"])
          /\ L_dict = l_returned

\* Two entities, the later-named one first in the input, and an entry given
\* twice.
C13_Witness ==
    /\ ldict_pc = "done" /\ HasKey(graph_data, "L")
    /\ Len(l_returned) = 2
    /\ l_returned[1][1] = "Bob"
    /\ \E i \in DOMAIN l_returned :
          Len(l_returned[i][2]) = 2 /\ l_returned[i][2][1] = l_returned[i][2][2]

(***************************************************************************)
(* Claims about find_best_matching_node.                                   *)
(***************************************************************************)
\* The similarity of the query to the entry at position i of the index.
SimAt(i) == cosine_similarity(query_emb, index[i].embedding)

SameScore(x, y) == ~Less(x, y) /\ ~Less(y, x)

\* The entry at position i has the maximum similarity over the index.
IsMaximal(i) == \A j \in DOMAIN index : ~Less(SimAt(i), SimAt(j))

\* C14: find_best_matching_node returns a name exactly when the index is not
\* empty and its maximum similarity is equal to the threshold or above it;
\* it returns None when the maximum is strictly below the threshold or the
\* index is empty.
C14_ThresholdInclusive ==
    resolve_pc = "done" =>
       /\ (\E i \in DOMAIN index : IsMaximal(i) /\ ~Less(SimAt(i), threshold))
             => matched # NoName
       /\ (\A i \in DOMAIN index : Less(SimAt(i), threshold)) => matched = NoName

\* The maximum similarity is the threshold itself, neither 0 nor the
\* similarity of the first entry, and a name is returned.
C14_Witness ==
    /\ resolve_pc = "done"
    /\ matched # NoName
    /\ threshold.n # 0
    /\ \E i \in DOMAIN index :
          i > 1 /\ IsMaximal(i) /\ SameScore(SimAt(i), threshold)
                /\ Less(SimAt(1), threshold)

\* C15: the name returned is the name of the first entry, in index order,
\* among those whose similarity is the maximum over the whole index; and
\* the call has embedded the query exactly once, whatever the number of
\* entries scanned.
C15_FirstMaximalEntry ==
    /\ resolve_pc \in {"scan", "done"} => embed_calls = 1
    /\ (resolve_pc = "done" /\ matched # NoName) =>
          \E i \in DOMAIN index :
             /\ matched = index[i].name
             /\ IsMaximal(i)
             /\ \A j \in 1..(i - 1) : Less(SimAt(j), SimAt(i))

\* Three entries scanned; the second and the third share the maximum, from
\* different embeddings, and the second is returned.
C15_Witness ==
    /\ resolve_pc = "done"
    /\ Len(index) = 3
    /\ matched = index[2].name
    /\ SameScore(SimAt(2), SimAt(3))
    /\ index[2].embedding # index[3].embedding
    /\ Less(SimAt(1), SimAt(2))

(***************************************************************************)
(* Claims about handle_question.                                           *)
(***************************************************************************)
\* The question in hand has its query: it is at, or past, the execution.
QueryReady == qa_pc \in {"execute", "synthesize", "save"} \/ qa_calls["execute"] = 1

\* The neighbourhood template of a name.
TemplateOf(name) ==
    <<NL, SP, "MATCH path = (n)-[*1..3]-(m) WHERE toLower(n.name) CONTAINS",
      Lower(name),
      "RETURN nodes(path) AS nodes, relationships(path) AS relationships LIMIT 50",
      NL, SP>>

\* C16: a question reaches its query by exactly one branch: the completion
\* collaborator is asked for a translation (once) if and only if the
\* resolver returned no name; when it returned a name no translation is
\* asked for and the query is the template of that name, whatever the
\* question.
C16_OneBranch ==
    /\ qa_calls["translate"] \in {0, 1}
    /\ qa_calls["translate"] = 1 => matched_node = NoName
    /\ QueryReady =>
          /\ qa_calls["translate"] = 1 <=> matched_node = NoName
          /\ matched_node # NoName => cypher_query = TemplateOf(matched_node)

\* The second question resolved to a name and has the query of that name; the
\* first one was answered through a translation.
C16_Witness ==
    /\ asked = 2 /\ Len(answered) = 1
    /\ answered[1].cypher_query = <<Statement>>
    /\ QueryReady
    /\ matched_node = "Paris"
    /\ qa_calls["translate"] = 0

\* The tokens a cleaning may remove before the query and after it.
Removable(t) == t = Tick \/ t \in Whitespace \/ Lower(t) \in KnownTags

\* The query is a piece of the output that leaves out only a removable
\* head and a tail of backquotes and whitespace.
IsCoreOf(q, out) ==
    \E i \in 1..(Len(out) + 1) :
       /\ i + Len(q) - 1 <= Len(out)
       /\ SubSeq(out, i, i + Len(q) - 1) = q
       /\ \A j \in 1..(i - 1) : Removable(out[j])
       /\ \A j \in (i + Len(q))..Len(out) : out[j] = Tick \/ out[j] \in Whitespace

LeadsWithTagLine(q) ==
    /\ q # <<>>
    /\ Lower(q[1]) \in KnownTags
    /\ Len(q) = 1 \/ q[2] = NL

\* The translation of the question in hand has returned.
Translated == qa_calls["translate"] = 1 /\ qa_error # "translate"

\* C17: once the translation has returned, the query is the output of the
\* collaborator less its surrounding whitespace and, when the output begins
\* with a code fence, less the backquotes at its two ends and a leading
\* cypher, python or sql line; an output without a leading fence is only
\* trimmed.  Whatever the query is, empty or not a statement, the question
\* goes on to the execution with it.
C17_TranslationVerbatim ==
    Translated =>
       /\ IsCoreOf(cypher_query, Strip(translation))
       /\ Strip(cypher_query) = cypher_query
       /\ ~StartsWith(Strip(translation), FenceMark) => cypher_query = Strip(translation)
       /\ StartsWith(Strip(translation), FenceMark) =>
             /\ cypher_query = <<>>
                \/ (cypher_query[1] # Tick /\ cypher_query[Len(cypher_query)] # Tick)
             /\ ~LeadsWithTagLine(cypher_query)
       /\ QueryReady

\* A fenced translation with a language line and a blank last line was
\* executed as the statement alone.
C17_Witness ==
    /\ Translated
    /\ qa_calls["execute"] = 1
    /\ StartsWith(translation, FenceMark \o <<"cypher">>)
    /\ Len(translation) > 10
    /\ cypher_query = <<Statement>>

\* The log file after the records were saved to the file given.
LogAfter(start, records) ==
    IF records = <<>> THEN start ELSE ArrayFile(start.data \o records)

StepsAfter(step) ==
    CASE step = "embed" -> {"translate", "execute", "synthesize", "save"}
      [] step = "translate" -> {"execute", "synthesize", "save"}
      [] step = "execute" -> {"synthesize", "save"}
      [] step = "synthesize" -> {"save"}
      [] OTHER -> {}

\* C18: when the embedding, the translation, the execution or the synthesis
\* of a question fails, the failing call was made once, no later step of
\* the question has run, the caller of handle_question has the error, and
\* the log file is the one the answered questions alone have made; the
\* index file never changes.  A caller holding an error holds one of these
\* four.
C18_FailStop ==
    /\ [](/\ qa_error # NoStep =>
             /\ qa_pc = "raised"
             /\ qa_calls[qa_error] = 1
             /\ \A step \in StepsAfter(qa_error) : qa_calls[step] = 0
             /\ log_file = LogAfter(log_start, answered)
          /\ qa_pc = "raised" =>
                qa_error \in {"embed", "translate", "execute", "synthesize"})
    /\ [][/\ index' = index
          /\ qa_pc' = "raised" => log_file' = log_file
          /\ qa_pc = "raised" => (qa_pc' = "resolve" /\ log_file' = log_file)]_vars

\* The first question failed; the second one was answered and is the only
\* record added to the log.
C18_Witness ==
    /\ asked = 2 /\ qa_pc = "idle"
    /\ Len(answered) = 1
    /\ log_start = ArrayFile(<<OldRecord>>)
    /\ log_file = ArrayFile(<<OldRecord, answered[1]>>)

\* C19: the log file is at all times the file of the start followed by one
\* record per answered question, in the order of the answers (the empty
\* array stands for a file that was absent or empty), and the questions
\* that returned are those with a record.
C19_AppendOnly ==
    /\ log_file = LogAfter(log_start, answered)
    /\ qa_pc = "idle" => asked >= Len(answered)
    /\ \A i \in DOMAIN answered :
          log_file.data[Len(log_start.data) + i] = answered[i]
    /\ IsPrefix(log_start.data, log_file.data)

\* Two questions answered upon a log of one record.
C19_Witness ==
    /\ qa_pc = "idle" /\ Len(answered) = 2
    /\ log_start = ArrayFile(<<OldRecord>>)
    /\ Len(log_file.data) = 3
    /\ answered[1] # answered[2]

(***************************************************************************)
(* Claims about build_node_embedding_index.                                *)
(***************************************************************************)
EntryNames == {index_file.data[i].name : i \in DOMAIN index_file.data}

\* The non-blank names the nodes of the store carry, as stored.
StoredNames ==
    {store.nodes[i].props.name :
       i \in {j \in DOMAIN store.nodes :
                /\ "name" \in DOMAIN store.nodes[j].props
                /\ Strip(store.nodes[j].props.name) # <<>>}}

\* The non-blank names of the nodes that carry a label, trimmed.
TrimmedLabelledNames ==
    {Strip(store.nodes[i].props.name) :
       i \in {j \in DOMAIN store.nodes :
                /\ store.nodes[j].labels # {}
                /\ "name" \in DOMAIN store.nodes[j].props
                /\ Strip(store.nodes[j].props.name) # <<>>}}

OneEntryPerName ==
    /\ \A i, j \in DOMAIN index_file.data :
          index_file.data[i].name = index_file.data[j].name => i = j
    /\ build_calls = Len(index_file.data)

\* No label has more nodes than the query returns rows.
WithinRowLimit ==
    \A label \in DbLabels(store) :
       Cardinality({i \in DOMAIN store.nodes : label \in store.nodes[i].labels}) <= RowLimit

\* C20 as stated: the index written has one entry per distinct non-blank
\* node name of the store, none missing, no two entries with one name, and
\* embed_text was called once per entry.
C20_OneEntryPerStoredName ==
    build_pc = "done" => (OneEntryPerName /\ EntryNames = StoredNames)

\* What the index written does hold is one entry per distinct trimmed
\* name: every entry is the non-blank name, trimmed of its surrounding
\* whitespace, of a node that carries a label; no two entries share a name;
\* embed_text was called once per entry; and when no label has more nodes
\* than the query returns rows, no such trimmed name is missing.
C20_OneEntryPerTrimmedName ==
    build_pc = "done" =>
       /\ OneEntryPerName
       /\ EntryNames \subseteq TrimmedLabelledNames
       /\ WithinRowLimit => EntryNames = TrimmedLabelledNames

\* Three nodes, two of them with one name (one padded), one under two
\* labels, one with no label: two stored names, one entry.
C20_Witness ==
    /\ build_pc = "done"
    /\ Len(store.nodes) = 3
    /\ Len(index_file.data) = 1
    /\ build_calls = 1
    /\ Cardinality(StoredNames) = 2
    /\ \E i \in DOMAIN store.nodes : Cardinality(store.nodes[i].labels) = 2
    /\ \E i \in DOMAIN store.nodes : store.nodes[i].labels = {}

(***************************************************************************)
(* Claims about the records written to the graph store.                    *)
(***************************************************************************)
\* The ids of the node records of a graph.
NodeIds(g) == {Get(g, "nodes", <<>>)[i].id : i \in DOMAIN Get(g, "nodes", <<>>)}

\* The relationship records of a graph whose two ends are nodes of it.
BoundRelationships(g) ==
    {r \in Range(Get(g, "relationships", <<>>)) :
       r.start_node_id \in NodeIds(g) /\ r.end_node_id \in NodeIds(g)}

\* The store holds an edge of its own for the relationship record: from a
\* node of its start id to a node of its end id, of its type, with its
\* properties.
HasEdgeOf(S, r) ==
    \E i \in DOMAIN S.edges :
       /\ S.edges[i].a \in MatchNodes(S, r.start_node_id)
       /\ S.edges[i].b \in MatchNodes(S, r.end_node_id)
       /\ S.edges[i].type = r.type
       /\ S.edges[i].props = Get(r, "properties", NoAttrs)

\* The first write_graph_to_neo4j of the run has returned.
FirstWriteDone ==
    write_pc = "ready" /\ written > 0 /\ written = RecordCount(<<graph_json>>)

\* C21: once write_graph_to_neo4j has written a graph to the empty store,
\* every relationship record of the graph between two of its nodes is an
\* edge of the store with the record's type and the record's properties,
\* so that records between the same ordered pair differing in timestamp or
\* in type are separate edges.
C21_MultigraphKept ==
    FirstWriteDone => \A r \in BoundRelationships(graph_json) : HasEdgeOf(store, r)

\* C22: in every reachable state of the store there is at most one node per
\* node id.
C22_OneNodePerId ==
    \A i, j \in DOMAIN store.nodes :
       ("id" \in DOMAIN store.nodes[i].props
        /\ "id" \in DOMAIN store.nodes[j].props
        /\ store.nodes[i].props.id = store.nodes[j].props.id) => i = j

(***************************************************************************)
(* Claims about the failures of an extraction pass.                        *)
(***************************************************************************)
\* The parsed passes that have the shape of a graph.
ShapedPasses == SelectSeq(ParsedPasses, LAMBDA g : ~MergeRaises(<<g>>))

\* What the passes that succeeded merge to.
MergeOfShaped ==
    IF ShapedPasses = <<>> THEN EmptyGraph ELSE merge_graph_data(ShapedPasses)

\* extract_graph_from_chunk is over: it returned or it raised.
ExtractOver == extract_pc \in {"done", "raised"}

\* C24: when every collaborator call of the chunk was answered, some pass
\* gave a graph and the function is over, it has returned, and its result
\* is the merge of the parsed passes that have the shape of a graph: a pass
\* whose document is not an object, or holds a node record without an id,
\* is dropped alone.
C24_MismatchedPassDropped ==
    (ExtractOver /\ Len(responses) = calls /\ ShapedPasses # <<>>) =>
        /\ extract_pc = "done"
        /\ merged_graph = MergeOfShaped

\* C25: when the function is over and no answered pass was mismatched, it
\* has returned, whether or not a collaborator call failed: the remaining
\* passes ran (num_repeats calls were made) and the result is the merge of
\* the passes that succeeded.
C25_FailedCallNotFatal ==
    (ExtractOver /\ ShapedPasses = ParsedPasses) =>
        /\ extract_pc = "done"
        /\ calls = num_repeats
        /\ merged_graph = MergeOfShaped

(***************************************************************************)
(* Claims about the ingest job.                                            *)
(***************************************************************************)
\* The chunks whose extraction returned, in chunk order.
ReturnedChunks == SelectSeq(chunk_log, LAMBDA c : ~c.raised)

\* Their graphs.
ReturnedGraphs == [i \in DOMAIN ReturnedChunks |-> ReturnedChunks[i].graph]

\* The 0-based positions of the chunks whose extraction raised, ascending.
RECURSIVE RaisedFrom(_)
RaisedFrom(i) ==
    IF i > Len(chunk_log) THEN <<>>
    ELSE (IF chunk_log[i].raised THEN <<i - 1>> ELSE <<>>) \o RaisedFrom(i + 1)

\* The loop is over and the final graph is made.
IngestMerged == ingest_pc \in {"save", "write", "writing", "done"}

\* C23: the chunks are processed one after another in order, a chunk whose
\* extraction raises is logged and contributes nothing, and once the loop
\* is over every chunk was processed and the final graph is
\* merge_graph_data over the graphs of the chunks that did not raise, in
\* chunk order; that graph is the one saved and the one written to the
\* store.
C23_BadChunksSkipped ==
    /\ ingest_pc \in {"loop", "extract"} => idx = Len(chunk_log)
    /\ logged = RaisedFrom(1)
    /\ main_all_graphs = ReturnedGraphs
    /\ IngestMerged =>
          /\ Len(chunk_log) = Len(chunks)
          /\ final_graph = merge_graph_data(ReturnedGraphs)
    /\ ingest_pc \in {"write", "writing", "done"} => out_file = final_graph
    /\ ingest_pc \in {"writing", "done"} => graph_json = final_graph
    /\ ingest_pc = "done" =>
          write_i = Len(final_graph.nodes) + Len(final_graph.relationships)

\* The job is done: the first chunk raised, the second gave a node, which
\* is saved and stored.
C23_Witness ==
    /\ ingest_pc = "done"
    /\ Len(chunk_log) = 2
    /\ chunk_log[1].raised /\ ~chunk_log[2].raised
    /\ logged = <<0>>
    /\ out_file = final_graph
    /\ final_graph.nodes # <<>>
    /\ store.nodes # <<>>

\* The parsed passes of the chunks whose extraction returned, in submission
\* order.
ReturnedPasses == Flatten([i \in DOMAIN ReturnedChunks |-> ReturnedChunks[i].passes])

PipelineOrder == <<"extract", "save", "build", "visualize", "summary">>

RGraphReturns == rgraph_pc = "call" /\ rgraph_pc' = "done"
LDictReturns == ldict_pc = "call" /\ ldict_pc' = "done"

\* The extraction output holds the key.
FindsKey(key) == ~Falsy(graph_data) /\ HasKey(graph_data, key)

\* C29: a build_r_graph that finds no "R" (the output is None, empty or
\* lacks the key) returns a new empty graph and leaves builder.R_graph_nx
\* as it was; a build_l_dict that finds no "L" returns an empty dictionary
\* and leaves builder.L_dict as it was; a call that finds its key stores
\* what it returns, and no other step changes builder.R_graph_nx.
C29_ViewKeptWithoutKey ==
    [][ /\ (RGraphReturns /\ ~FindsKey("R")) =>
              (r_returned' = MultiDiGraph /\ R_graph_nx' = R_graph_nx)
        /\ (RGraphReturns /\ FindsKey("R")) => R_graph_nx' = r_returned'
        /\ (LDictReturns /\ ~FindsKey("L")) =>
              (l_returned' = <<>> /\ L_dict' = L_dict)
        /\ (LDictReturns /\ FindsKey("L")) => L_dict' = l_returned'
        /\ ~RGraphReturns => R_graph_nx' = R_graph_nx
      ]_vars

\* The second build found no "R": it returned an empty graph and the graph
\* of the first build, with its edge, is still on the builder.
C29_Witness ==
    /\ builds = 2
    /\ rgraph_pc = "done"
    /\ ~FindsKey("R")
    /\ r_returned = MultiDiGraph
    /\ R_graph_nx # None
    /\ R_graph_nx.edges # <<>>

(***************************************************************************)
(* Claims about a record operation that is stopped half-way.               *)
(***************************************************************************)
\* The records written so far: those of the log the run started with and
\* those of the questions answered since.
EarlierRecords == Range(log_start.data) \cup Range(answered)

\* C26: whenever no record operation is under way, be it after one that
\* completed, one that was stopped while rewriting the file, or one that
\* came later, every record written by an earlier answered question is in
\* the log file.
C26_InterruptedSaveKeepsRecords ==
    save_pc = "idle" => \A r \in EarlierRecords : r \in Range(log_file.data)

(***************************************************************************)
(* Claims about what a provenance record holds.                            *)
(***************************************************************************)
QAOrder == <<"resolve", "translate", "execute", "synthesize", "save">>

\* The steps completed for the question in hand, by name.
StepNames == [i \in DOMAIN qa_trace |-> qa_trace[i].step]

\* C30: the steps completed for a question are resolution, translation,
\* execution, synthesis and the save, in that order and once each; and the
\* record just written holds the question asked, the query string that was
\* executed, the rows the synthesizer was given, which are the rows the
\* query returned, and the answer the synthesizer gave; it is the last
\* record of the log file.
C30_RecordMatchesRun ==
    /\ IsPrefix(StepNames, QAOrder)
    /\ (qa_pc = "idle" /\ answered # <<>>) =>
          LET r == answered[Len(answered)] IN
          /\ StepNames = QAOrder
          /\ qa_calls.embed = 1 /\ qa_calls.execute = 1
          /\ qa_calls.synthesize = 1 /\ qa_calls.save = 1
          /\ qa_calls.translate <= 1
          /\ r.question = question
          /\ r.question = qa_trace[4].question
          /\ r.cypher_query = qa_trace[2].query
          /\ r.cypher_query = qa_trace[3].query
          /\ qa_trace[4].rows = qa_trace[3].rows
          /\ r.graph_trace = qa_trace[4].rows
          /\ r.answer = qa_trace[4].answer
          /\ log_file.file = "array"
          /\ log_file.data # <<>>
          /\ log_file.data[Len(log_file.data)] = r

\* A question was answered from rows the store returned, by a translated
\* query, and its record is written.
C30_Witness ==
    /\ qa_pc = "idle"
    /\ Len(answered) = 1
    /\ StepNames = QAOrder
    /\ qa_calls.translate = 1
    /\ answered[1].graph_trace # <<>>
    /\ answered[1].answer # <<>>
    /\ answered[1].cypher_query # <<>>

====
